---------------------------- MODULE Spec2Model ----------------------------
(***************************************************************************)
(* Model of the honeypot API server: the /chat handler (main.py), the      *)
(* durable store (redis_store.py), the in-process session map (memory.py), *)
(* the scorer (detector.py), the extractor (extractor.py) and the final    *)
(* callback (callback.py).                                                 *)
(***************************************************************************)
EXTENDS Integers, Sequences, FiniteSets, TLC

(***************************************************************************)
(* Characters and strings.  A Python str is modelled as the sequence of    *)
(* its characters; the texts a request may carry are named by TLA+ strings *)
(* and Chars gives their characters.                                       *)
(***************************************************************************)
Lower == {"a","b","c","d","e","f","g","h","i","j","k","l","m",
          "n","o","p","q","r","s","t","u","v","w","x","y","z"}

Upper == {"A","B","C","D","E","F","G","H","I","J","K","L","M",
          "N","O","P","Q","R","S","T","U","V","W","X","Y","Z"}

Digit == {"0","1","2","3","4","5","6","7","8","9"}

Whitespace == {" "}

Punct == {"@", ".", ",", "?", "!", ":", "/", "+", "-", "_", "%", "|"}

Alphabet == Lower \cup Upper \cup Digit \cup Whitespace \cup Punct

\* \w of the re module: letters, digits and the underscore.
WordChar == Lower \cup Upper \cup Digit \cup {"_"}

\* The message texts requests are drawn from.
Texts == {" verify 9876543210 ", "Verify OTP a@ybl", "  "}

Chars(t) ==
  CASE
         t = "Hello, how are you?" -> <<"H","e","l","l","o",","," ","h","o","w"," ","a","r","e"," ","y","o","u","?">>
      [] t = " verify 9876543210 " -> <<" ","v","e","r","i","f","y"," ","9","8","7","6","5","4","3","2","1","0"," ">>
      [] t = "Verify OTP a@ybl" -> <<"V","e","r","i","f","y"," ","O","T","P"," ","a","@","y","b","l">>
      [] t = "  " -> <<" "," ">>

LowerOf ==
  [c \in Alphabet |->
     CASE c = "A" -> "a" [] c = "B" -> "b" [] c = "C" -> "c" [] c = "D" -> "d"
       [] c = "E" -> "e" [] c = "F" -> "f" [] c = "G" -> "g" [] c = "H" -> "h"
       [] c = "I" -> "i" [] c = "J" -> "j" [] c = "K" -> "k" [] c = "L" -> "l"
       [] c = "M" -> "m" [] c = "N" -> "n" [] c = "O" -> "o" [] c = "P" -> "p"
       [] c = "Q" -> "q" [] c = "R" -> "r" [] c = "S" -> "s" [] c = "T" -> "t"
       [] c = "U" -> "u" [] c = "V" -> "v" [] c = "W" -> "w" [] c = "X" -> "x"
       [] c = "Y" -> "y" [] c = "Z" -> "z" [] OTHER -> c]

\* str.lower()
lower(s) == [i \in 1..Len(s) |-> LowerOf[s[i]]]

RECURSIVE lstrip(_)
lstrip(s) == IF s # <<>> /\ Head(s) \in Whitespace THEN lstrip(Tail(s)) ELSE s

RECURSIVE rstrip(_)
rstrip(s) ==
  IF s # <<>> /\ s[Len(s)] \in Whitespace THEN rstrip(SubSeq(s, 1, Len(s) - 1)) ELSE s

\* the text taken as it arrives
unstripped(s) == s

\* str.strip()
strip(s) == rstrip(lstrip(s))

\* the `in' operator on two strings: k is a substring of s
Contains(s, k) ==
  \E i \in 1..(Len(s) - Len(k) + 1) : SubSeq(s, i, i + Len(k) - 1) = k

RECURSIVE SumSeq(_)
SumSeq(q) == IF q = <<>> THEN 0 ELSE Head(q) + SumSeq(Tail(q))

\* the elements of a sequence
Range(q) == {q[i] : i \in DOMAIN q}

(***************************************************************************)
(* detector.py                                                             *)
(***************************************************************************)
SCAM_SIGNALS ==
    <<
       <<<<"u","r","g","e","n","t">>, 2>>,
       <<<<"u","r","g","e","n","t","l","y">>, 2>>,
       <<<<"i","m","m","e","d","i","a","t","e","l","y">>, 2>>,
       <<<<"r","i","g","h","t"," ","n","o","w">>, 2>>,
       <<<<"a","s","a","p">>, 2>>,
       <<<<"h","u","r","r","y">>, 2>>,
       <<<<"q","u","i","c","k">>, 1>>,
       <<<<"f","a","s","t">>, 1>>,
       <<<<"b","l","o","c","k","e","d">>, 3>>,
       <<<<"s","u","s","p","e","n","d","e","d">>, 3>>,
       <<<<"l","o","c","k","e","d">>, 3>>,
       <<<<"f","r","o","z","e","n">>, 3>>,
       <<<<"a","c","c","o","u","n","t"," ","s","u","s","p","e","n","d","e","d">>, 4>>,
       <<<<"a","c","c","o","u","n","t"," ","b","l","o","c","k","e","d">>, 4>>,
       <<<<"w","i","l","l"," ","b","e"," ","b","l","o","c","k","e","d">>, 3>>,
       <<<<"w","i","l","l"," ","b","e"," ","s","u","s","p","e","n","d","e","d">>, 3>>,
       <<<<"v","e","r","i","f","y">>, 2>>,
       <<<<"c","o","n","f","i","r","m">>, 2>>,
       <<<<"u","p","d","a","t","e">>, 2>>,
       <<<<"v","a","l","i","d","a","t","e">>, 2>>,
       <<<<"a","u","t","h","e","n","t","i","c","a","t","e">>, 2>>,
       <<<<"r","e","a","c","t","i","v","a","t","e">>, 2>>,
       <<<<"b","a","n","k">>, 1>>,
       <<<<"u","p","i">>, 3>>,
       <<<<"a","c","c","o","u","n","t">>, 1>>,
       <<<<"p","a","y","m","e","n","t">>, 1>>,
       <<<<"t","r","a","n","s","a","c","t","i","o","n">>, 1>>,
       <<<<"r","e","f","u","n","d">>, 2>>,
       <<<<"p","e","n","d","i","n","g">>, 1>>,
       <<<<"d","e","b","i","t">>, 2>>,
       <<<<"c","r","e","d","i","t">>, 1>>,
       <<<<"c","l","i","c","k">>, 2>>,
       <<<<"c","l","i","c","k"," ","h","e","r","e">>, 3>>,
       <<<<"t","a","p">>, 2>>,
       <<<<"d","o","w","n","l","o","a","d">>, 2>>,
       <<<<"i","n","s","t","a","l","l">>, 2>>,
       <<<<"s","h","a","r","e">>, 2>>,
       <<<<"p","r","o","v","i","d","e">>, 2>>,
       <<<<"s","e","n","d">>, 2>>,
       <<<<"o","t","p">>, 3>>,
       <<<<"p","a","s","s","w","o","r","d">>, 3>>,
       <<<<"p","i","n">>, 3>>,
       <<<<"c","v","v">>, 4>>,
       <<<<"c","a","r","d"," ","n","u","m","b","e","r">>, 4>>,
       <<<<"a","c","c","o","u","n","t"," ","n","u","m","b","e","r">>, 3>>,
       <<<<"d","e","t","a","i","l","s">>, 1>>,
       <<<<"b","a","n","k"," ","r","e","p","r","e","s","e","n","t","a","t","i","v","e">>, 2>>,
       <<<<"c","u","s","t","o","m","e","r"," ","c","a","r","e">>, 2>>,
       <<<<"s","u","p","p","o","r","t"," ","t","e","a","m">>, 2>>,
       <<<<"o","f","f","i","c","i","a","l">>, 1>>,
       <<<<"l","o","s","e">>, 2>>,
       <<<<"l","o","s","t">>, 2>>,
       <<<<"e","x","p","i","r","e">>, 2>>,
       <<<<"e","x","p","i","r","e","d">>, 2>>,
       <<<<"l","i","m","i","t","e","d"," ","t","i","m","e">>, 2>>,
       <<<<"d","e","a","d","l","i","n","e">>, 2>>
    >>

THRESHOLD == 4

\* detect_scam_score: the sum of the weights of the keywords found in the
\* lower-cased text; 0 for the empty text.
detect_scam_score(text) ==
  IF text = <<>> THEN 0
  ELSE LET text_lower == lower(text)
       IN  SumSeq([i \in 1..Len(SCAM_SIGNALS) |->
                     IF Contains(text_lower, SCAM_SIGNALS[i][1])
                     THEN SCAM_SIGNALS[i][2] ELSE 0])

is_scam(text) == detect_scam_score(text) >= THRESHOLD

(***************************************************************************)
(* The regular expressions of extractor.py.  A pattern is a sequence of    *)
(* items: a character class repeated between lo and hi times (greedy, with *)
(* backtracking), or the word-boundary assertion \b.                       *)
(***************************************************************************)
Rep(cls, lo, hi) == [k |-> "cls", c |-> cls, lo |-> lo, hi |-> hi, inf |-> FALSE]

AtLeast(cls, lo) == [k |-> "cls", c |-> cls, lo |-> lo, hi |-> lo, inf |-> TRUE]

Lit(ch) == Rep({ch}, 1, 1)

Opt(cls) == Rep(cls, 0, 1)

WB == [k |-> "wb", c |-> {}, lo |-> 0, hi |-> 0, inf |-> FALSE]

\* \b at position pos (between s[pos-1] and s[pos])
AtWordBoundary(s, pos) ==
  (pos > 1 /\ s[pos - 1] \in WordChar) # (pos <= Len(s) /\ s[pos] \in WordChar)

\* the longest run of characters of cls starting at pos, at most limit long
RECURSIVE RunLen(_, _, _, _)
RunLen(s, pos, cls, limit) ==
  IF limit > 0 /\ pos <= Len(s) /\ s[pos] \in cls
  THEN 1 + RunLen(s, pos + 1, cls, limit - 1)
  ELSE 0

\* the first of two match results that is a match (0: no match)
OrElse(r, alt) == IF r # 0 THEN r ELSE alt

\* how often item k is repeated at pos: its longest repetition when n < 0,
\* else n
RepCount(re, k, s, pos, n) ==
  IF n < 0
  THEN RunLen(s, pos, re[k].c, IF re[k].inf THEN Len(s) ELSE re[k].hi)
  ELSE n

\* The position after the match of items k.. of pattern re starting at pos,
\* 0 when there is none.  Item k is first tried with its longest repetition
\* (n < 0), then with one character less each time the rest fails to match.
RECURSIVE MatchFrom(_, _, _, _, _)
MatchFrom(re, k, s, pos, n) ==
  IF k > Len(re) THEN pos
  ELSE IF re[k].k = "wb"
  THEN IF AtWordBoundary(s, pos) THEN MatchFrom(re, k + 1, s, pos, 0 - 1) ELSE 0
  ELSE IF RepCount(re, k, s, pos, n) < re[k].lo THEN 0
  ELSE OrElse(MatchFrom(re, k + 1, s, pos + RepCount(re, k, s, pos, n), 0 - 1),
              IF RepCount(re, k, s, pos, n) = 0 THEN 0
              ELSE MatchFrom(re, k, s, pos, RepCount(re, k, s, pos, n) - 1))

\* the matches found from pos on, given the end e of the match at pos
RECURSIVE FindAllFrom(_, _, _)
FindAllFrom(re, s, pos) ==
  IF pos > Len(s) THEN <<>>
  ELSE IF MatchFrom(re, 1, s, pos, 0 - 1) \in {0, pos}
  THEN FindAllFrom(re, s, pos + 1)
  ELSE <<SubSeq(s, pos, MatchFrom(re, 1, s, pos, 0 - 1) - 1)>>
       \o FindAllFrom(re, s, MatchFrom(re, 1, s, pos, 0 - 1))

\* re.findall: the non-overlapping matches, scanning left to right
findall(re, s) == FindAllFrom(re, s, 1)

Alnum == Lower \cup Upper \cup Digit

\* r'\b\d{12,16}\b'
RE_BANK == <<WB, Rep(Digit, 12, 16), WB>>

\* r'[a-zA-Z0-9._-]+@[a-zA-Z0-9]+'
RE_UPI == <<AtLeast(Alnum \cup {".", "_", "-"}, 1), Lit("@"), AtLeast(Alnum, 1)>>

\* r'https?://\S+'
RE_URL == <<Lit("h"), Lit("t"), Lit("t"), Lit("p"), Opt({"s"}), Lit(":"),
            Lit("/"), Lit("/"), AtLeast(Alphabet \ Whitespace, 1)>>

\* r'\+91[-\s]?\d{10}', r'\b91\d{10}\b', r'\b[6-9]\d{9}\b'
phone_patterns ==
  << <<Lit("+"), Lit("9"), Lit("1"), Opt({"-"} \cup Whitespace), Rep(Digit, 10, 10)>>,
     <<WB, Lit("9"), Lit("1"), Rep(Digit, 10, 10), WB>>,
     <<WB, Rep({"6", "7", "8", "9"}, 1, 1), Rep(Digit, 9, 9), WB>> >>

\* r'\b[A-Za-z0-9._%+-]+@[A-Za-z0-9.-]+\.[A-Z|a-z]{2,}\b'
RE_EMAIL == <<WB, AtLeast(Alnum \cup {".", "_", "%", "+", "-"}, 1), Lit("@"),
              AtLeast(Alnum \cup {".", "-"}, 1), Lit("."),
              AtLeast(Upper \cup Lower \cup {"|"}, 2), WB>>

UPI_HANDLES ==
  << <<"@","u","p","i">>, <<"@","p","a","y","t","m">>, <<"@","y","b","l">>,
     <<"@","o","k","s","b","i">>, <<"@","o","k","a","x","i","s">>,
     <<"@","o","k","i","c","i","c","i">>,
     <<"@","o","k","h","d","f","c","b","a","n","k">> >>

suspicious_keywords_list ==
    <<
       <<"u","r","g","e","n","t">>,
       <<"u","r","g","e","n","t","l","y">>,
       <<"v","e","r","i","f","y">>,
       <<"b","l","o","c","k","e","d">>,
       <<"s","u","s","p","e","n","d","e","d">>,
       <<"c","l","i","c","k">>,
       <<"o","t","p">>,
       <<"p","a","s","s","w","o","r","d">>,
       <<"p","i","n">>,
       <<"c","v","v">>,
       <<"a","c","c","o","u","n","t"," ","n","u","m","b","e","r">>,
       <<"c","a","r","d"," ","n","u","m","b","e","r">>,
       <<"i","m","m","e","d","i","a","t","e","l","y">>,
       <<"e","x","p","i","r","e">>,
       <<"f","r","o","z","e","n">>,
       <<"l","o","c","k","e","d">>
    >>

RECURSIVE Concat(_)
Concat(qs) == IF qs = <<>> THEN <<>> ELSE Head(qs) \o Concat(Tail(qs))

\* list(set(q)): the distinct elements of q, in an order the hash table
\* decides; every order is possible.
ListOfSet(q) ==
  LET S == Range(q)
  IN  {p \in [1..Cardinality(S) -> S] : Range(p) = S}

\* a list comprehension with a condition: the elements of q that are in
\* Keep, in the order of q
RECURSIVE Filter(_, _)
Filter(q, Keep) ==
  IF q = <<>> THEN <<>>
  ELSE (IF Head(q) \in Keep THEN <<Head(q)>> ELSE <<>>) \o Filter(Tail(q), Keep)

IntelKeys == {"bankAccounts", "upiIds", "phishingLinks", "phoneNumbers",
              "suspiciousKeywords", "emailAddresses"}

EmptyIntel == [key \in IntelKeys |-> <<>>]

\* extract_intelligence: the results it can return for a text (one for each
\* order list(set(...)) can produce).
extract_intelligence(text) ==
  IF text = <<>> THEN {EmptyIntel}
  ELSE LET text_lower == lower(text)
           IsUpi == {uid \in Range(findall(RE_UPI, text)) :
                       \E h \in Range(UPI_HANDLES) : Contains(lower(uid), h)}
           IsFound == {kw \in Range(suspicious_keywords_list) :
                         Contains(text_lower, kw)}
           phones == Concat([i \in 1..Len(phone_patterns) |->
                               findall(phone_patterns[i], text)])
       IN  { [bankAccounts       |-> bank_accounts,
              upiIds             |-> Filter(upi_ids, IsUpi),
              phishingLinks      |-> urls,
              phoneNumbers       |-> phone_numbers,
              suspiciousKeywords |-> found_keywords,
              emailAddresses     |-> email_addresses] :
               <<bank_accounts, upi_ids, urls, phone_numbers,
                 found_keywords, email_addresses>> \in
                   ListOfSet(findall(RE_BANK, text))
                   \X ListOfSet(findall(RE_UPI, text))
                   \X ListOfSet(findall(RE_URL, text))
                   \X ListOfSet(phones)
                   \X ListOfSet(Filter(suspicious_keywords_list, IsFound))
                   \X ListOfSet(findall(RE_EMAIL, text)) }

(***************************************************************************)
(* Bounds of the model.                                                    *)
(***************************************************************************)
\* a session is not sent more messages than this
MaxMessages == 9

\* the Reporter invocations a run makes at most
MaxCallbacks == 2

\* the largest max_retries send_final_callback is called with
MaxRetries == 3

\* the clock stops at MaxTime
MaxTime == 4

\* the largest max_age_seconds cleanup_old_sessions is called with
MaxAge == 2

\* the messages of a session in the runs with cleanup_old_sessions
MaxSweptMessages == 2

\* how many times a session is left idle until its Redis key expires
MaxWaits == 2

\* request-handling threads of the server's thread pool (concurrent runs)
NumThreads == 2

(***************************************************************************)
(* Program constants.                                                      *)
(***************************************************************************)
\* main.py:149, the message count the final callback waits for
MIN_MESSAGES_FOR_CALLBACK == 8

\* redis_store.py:73, the default ttl of save_session
SESSION_TTL == 86400

\* callback.py:13, the default max_retries of send_final_callback
MAX_RETRIES == 3

\* agent.py:48-57, len(FALLBACK_RESPONSES)
NUM_FALLBACK_RESPONSES == 8

\* config.py:12
API_KEY == "YOUR_SECRET_API_KEY"

\* the X-API-Key header a request may carry; "" is an absent header
ApiKeys == {API_KEY, "wrong-key", ""}

SessionIdSeq == <<"s1", "s2">>

SessionIds == Range(SessionIdSeq)

Threads == 1..NumThreads

ObjIds == 1..(Len(SessionIdSeq) + NumThreads)

\* Python's None, and a value that is not None
None == <<>>

Some(v) == <<v>>

\* a dict with key k set to v, and with key k deleted
Put(f, k, v) == [x \in (DOMAIN f) \cup {k} |-> IF x = k THEN v ELSE f[x]]

Remove(f, k) == [x \in (DOMAIN f) \ {k} |-> f[x]]

EmptyDict == [x \in {} |-> None]

VARIABLES
  redis_client,   \* redis_store.redis_client: "client", or "none" when unset
  GUVI_CALLBACK_URL, \* config.GUVI_CALLBACK_URL: TRUE when a destination is set
  client,         \* agent.client: "gemini", or "none" when unset
  redis,          \* the keys of the Redis server: id -> [value, expire_at]
  sessions,       \* memory.sessions: id -> reference to a dict object
  heap,           \* the session dict objects: reference -> session
  now,            \* the clock, in seconds
  callbacks,      \* the calls of send_final_callback so far, in order
  response,       \* the response to the latest request
  responses,      \* per session id, the latest success response of /chat
  pc,             \* per thread, the step of chat() it is at
  frame,          \* per thread, the local variables of chat()
  tz,             \* the local time zone of the process
  call,           \* the latest request or function call from outside
  sweep,          \* the local variables of a running cleanup_old_sessions
  twin            \* a second server, without Redis client, sent the same requests

vars == <<redis_client, GUVI_CALLBACK_URL, client, redis, sessions, heap, now,
          callbacks, response, responses, pc, frame, call, sweep, twin, tz>>

config == <<redis_client, GUVI_CALLBACK_URL, client, tz>>

(***************************************************************************)
(* models.py: the request body.                                            *)
(***************************************************************************)
Message(t) == [sender |-> "scammer", text |-> t, timestamp |-> 0]

\* conversationHistory: Optional[List[Message]], default []
Histories == {None, Some(<<>>), Some(<<Message("Verify OTP a@ybl")>>)}

(***************************************************************************)
(* redis_store.py                                                          *)
(***************************************************************************)
SessionKeys == <<"sessionId", "messages", "scamDetected", "scamScore", "intel",
                 "callbackSent", "createdAt", "lastUpdated">>

\* json.dumps of a dict: its keys with their values, in the order of the keys
json_dumps(data) ==
  LET keys == SelectSeq(SessionKeys, LAMBDA key : key \in DOMAIN data)
  IN  [i \in 1..Len(keys) |-> <<keys[i], data[keys[i]]>>]

\* json.loads of a document written by json.dumps
json_loads(doc) ==
  [key \in {doc[i][1] : i \in DOMAIN doc} |->
     doc[CHOOSE i \in DOMAIN doc :
           doc[i][1] = key /\ \A j \in DOMAIN doc : doc[j][1] = key => j <= i][2]]

\* the faults a Redis call can end in instead of an answer
LoadFaults == {"ConnectionError", "JSONDecodeError"}

SaveFaults == {"ConnectionError", "Exception"}

\* get_session: the stored session, or None (no client, no key, an expired
\* key, or a fault, which is logged and absorbed)
get_session(session_id, fault) ==
  IF redis_client = "none" THEN None
  ELSE IF fault # "ok" THEN None
  ELSE IF session_id \in DOMAIN redis /\ now < redis[session_id].expire_at
       THEN Some(json_loads(redis[session_id].value))
       ELSE None

\* save_session writing only the keys the server does not hold (SETNX)
save_session_nx(session_id, data, fault) ==
  IF redis_client = "none" THEN [redis |-> redis, result |-> FALSE]
  ELSE IF fault # "ok" THEN [redis |-> redis, result |-> FALSE]
  ELSE [redis  |-> IF session_id \in DOMAIN redis THEN redis
                   ELSE Put(redis, session_id,
                            [value |-> json_dumps(data),
                             expire_at |-> now + SESSION_TTL]),
        result |-> TRUE]

\* save_session: the keys of the server after SETEX, and the value returned
save_session(session_id, data, fault) ==
  IF redis_client = "none" THEN [redis |-> redis, result |-> FALSE]
  ELSE IF fault # "ok" THEN [redis |-> redis, result |-> FALSE]
  ELSE [redis  |-> Put(redis, session_id,
                       [value |-> json_dumps(data), expire_at |-> now + SESSION_TTL]),
        result |-> TRUE]

(***************************************************************************)
(* memory.py: the clock of cleanup_old_sessions.  datetime.utcnow() is a   *)
(* naive datetime, and timestamp() reads a naive datetime as local time:   *)
(* it subtracts the UTC offset the process's zone has at that wall-clock   *)
(* time.  A zone is the wall-clock time at which its offset changes and    *)
(* the change, in the unit of the clock.                                   *)
(***************************************************************************)
UTC == [dst |-> FALSE, change |-> 0, shift |-> 0]

TimeZones == {UTC, [dst |-> TRUE, change |-> 2, shift |-> 1],
                   [dst |-> TRUE, change |-> 2, shift |-> -1]}

\* datetime.timestamp() of a naive datetime
timestamp(naive) ==
  naive - (IF tz.dst /\ naive >= tz.change THEN tz.shift ELSE 0)

(***************************************************************************)
(* agent.py                                                                *)
(***************************************************************************)
Min(a, b) == IF a <= b THEN a ELSE b

\* what client.models.generate_content can do
GenOutcomes == {"reply", "invalid", "no_text", "error"}

\* generate_agent_reply: the reply, or the TypeError len(None) raises before
\* the try block is entered
generate_agent_reply(latest_message, history, outcome) ==
  IF history = None THEN [raised |-> TRUE, reply |-> None]
  ELSE LET fallback_index == Min(Len(history[1]), NUM_FALLBACK_RESPONSES - 1)
           fallback_reply == Some(<<"fallback", fallback_index>>)
       IN  IF client = "none" THEN [raised |-> FALSE, reply |-> fallback_reply]
           ELSE IF outcome = "reply"
                THEN [raised |-> FALSE, reply |-> Some(<<"generated", 0>>)]
                ELSE [raised |-> FALSE, reply |-> fallback_reply]

(***************************************************************************)
(* callback.py                                                             *)
(***************************************************************************)
\* what one requests.post can end in
PostOutcomes == {"200", "500", "Timeout", "ConnectionError", "Exception"}

\* the outcomes the posts of a /chat request are drawn from
ChatPostOutcomes == {"200", "Timeout"}

\* the retry loop without the return of line 47: every attempt is made
AttemptsAll(outcomes, attempt) ==
  [result |-> \E i \in DOMAIN outcomes : outcomes[i] = "200",
   posts  |-> Len(outcomes)]

\* the attempts of the retry loop: it stops at the first status 200
RECURSIVE Attempts(_, _)
Attempts(outcomes, attempt) ==
  IF attempt > Len(outcomes) THEN [result |-> FALSE, posts |-> Len(outcomes)]
  ELSE IF outcomes[attempt] = "200" THEN [result |-> TRUE, posts |-> attempt]
  ELSE Attempts(outcomes, attempt + 1)

\* send_final_callback without the test of lines 24-26
send_final_callback_unchecked(payload, max_retries, outcomes) ==
  Attempts(SubSeq(outcomes, 1, max_retries), 1)

\* send_final_callback(payload, max_retries): outcomes[i] is what the i-th
\* post ends in, if it is made
send_final_callback(payload, max_retries, outcomes) ==
  IF ~GUVI_CALLBACK_URL THEN [result |-> FALSE, posts |-> 0]
  ELSE Attempts(SubSeq(outcomes, 1, max_retries), 1)

(***************************************************************************)
(* The scorer and the extractor, tabulated over the texts of the model.    *)
(***************************************************************************)
TextStrings == {Chars(t) : t \in Texts} \cup {strip(Chars(t)) : t \in Texts}

score_of == [s \in TextStrings |-> detect_scam_score(s)]

extract_of == [s \in TextStrings |-> extract_intelligence(s)]

is_scam_of == [s \in TextStrings |-> is_scam(s)]

(***************************************************************************)
(* Objects and references.  A session is a dict object; memory.sessions    *)
(* and the local variable `session' of a running chat() hold references to *)
(* such objects, so a change made through one reference is seen through   *)
(* every other reference to the same object.                               *)
(***************************************************************************)
\* the local variables of chat() that outlive one step; session = 0: unbound
\* no call from outside yet
NoCall == [op |-> "none", args |-> [none |-> TRUE], result |-> [none |-> TRUE]]

\* cleanup_old_sessions is not running
IdleSweep ==
  [pc |-> "idle", max_age_seconds |-> 0, current_time |-> 0, items |-> {},
   size |-> 0, to_delete |-> <<>>]

IdleFrame ==
  [session_id |-> "", message |-> Message(""), history |-> None,
   session |-> 0, reply |-> None, message_count |-> 0, due |-> FALSE,
   result |-> FALSE]

\* the references held, memory.sessions first, then the threads (0: none)
HolderRefs(ss, fr) ==
  [i \in 1..(Len(SessionIdSeq) + NumThreads) |->
     IF i <= Len(SessionIdSeq)
     THEN IF SessionIdSeq[i] \in DOMAIN ss THEN ss[SessionIdSeq[i]] ELSE 0
     ELSE fr[i - Len(SessionIdSeq)].session]

\* Objects no reference reaches are freed, and the rest are renumbered in
\* the order of their first holder (a reference has no meaning but identity).
Normalize(h, ss, fr) ==
  LET R == HolderRefs(ss, fr)
      Live == Range(R) \ {0}
      First(r) == CHOOSE i \in DOMAIN R : R[i] = r /\ \A j \in 1..(i - 1) : R[j] # r
      ren == [r \in Live |-> Cardinality({q \in Live : First(q) <= First(r)})]
  IN  [heap     |-> [o \in {ren[r] : r \in Live} |->
                       h[CHOOSE r \in Live : ren[r] = o]],
       sessions |-> [sid \in DOMAIN ss |-> ren[ss[sid]]],
       frame    |-> [t \in Threads |->
                       IF fr[t].session = 0 THEN fr[t]
                       ELSE [fr[t] EXCEPT !.session = ren[@]]]]

\* the reference of the first object, whatever the heap holds
FirstRef(h) == 1

\* a reference to a new object
NewRef(h) == CHOOSE o \in ObjIds : o \notin DOMAIN h /\ \A q \in 1..(o - 1) : q \in DOMAIN h

(***************************************************************************)
(* main.py: chat()                                                         *)
(***************************************************************************)
\* a session created with the flag of the report already set
NewSessionReported(session_id) ==
  [sessionId    |-> session_id,
   messages     |-> <<>>,
   scamDetected |-> FALSE,
   scamScore    |-> 0,
   intel        |-> EmptyIntel,
   callbackSent |-> TRUE,
   createdAt    |-> now,
   lastUpdated  |-> now]

\* lines 101-117: the session created for an id no store knows
NewSession(session_id) ==
  [sessionId    |-> session_id,
   messages     |-> <<>>,
   scamDetected |-> FALSE,
   scamScore    |-> 0,
   intel        |-> EmptyIntel,
   callbackSent |-> FALSE,
   createdAt    |-> now,
   lastUpdated  |-> now]

\* line 97 without the map: get_session(session_id) alone
ResolveRedisOnly(session_id, fault) ==
  LET loaded == get_session(session_id, fault)
  IN  IF loaded # None
      THEN [from_map |-> FALSE, exists |-> TRUE, value |-> loaded[1]]
      ELSE IF redis_client = "none" /\ session_id \in DOMAIN sessions
           THEN [from_map |-> TRUE, exists |-> TRUE,
                 value |-> heap[sessions[session_id]]]
           ELSE [from_map |-> FALSE, exists |-> FALSE,
                 value |-> NewSession(session_id)]

\* line 97: get_session(session_id) or sessions.get(session_id).  from_map
\* tells that the session is the object memory.sessions holds.
Resolve(session_id, fault) ==
  LET loaded == get_session(session_id, fault)
  IN  IF loaded # None
      THEN [from_map |-> FALSE, exists |-> TRUE, value |-> loaded[1]]
      ELSE IF session_id \in DOMAIN sessions
           THEN [from_map |-> TRUE, exists |-> TRUE,
                 value |-> heap[sessions[session_id]]]
           ELSE [from_map |-> FALSE, exists |-> FALSE,
                 value |-> NewSession(session_id)]

\* lines 120-121
AppendMessage(session, message) ==
  [session EXCEPT !.messages = Append(@, message), !.lastUpdated = now]

\* line 125 written as an assignment of the message's score
AddScoreAssigned(session, text) ==
  [session EXCEPT !.scamScore = score_of[text]]

\* lines 124-125
AddScore(session, text) ==
  [session EXCEPT !.scamScore = @ + score_of[text]]

\* lines 129-130 without the latch: the flag follows the current message
LatchScamFollowing(session, text) ==
  [session EXCEPT !.scamDetected = is_scam_of[text]]

\* lines 129-130 testing the session's cumulative score
LatchScamOnTotal(session, text) ==
  IF session.scamScore >= THRESHOLD /\ ~session.scamDetected
  THEN [session EXCEPT !.scamDetected = TRUE]
  ELSE session

\* lines 129-130
LatchScam(session, text) ==
  IF is_scam_of[text] /\ ~session.scamDetected
  THEN [session EXCEPT !.scamDetected = TRUE]
  ELSE session

IntelKeySeq == <<"bankAccounts", "upiIds", "phishingLinks", "phoneNumbers",
                 "suspiciousKeywords", "emailAddresses">>

\* line 137 without set(): the plain concatenation old + new
MergeListConcat(old, new) == {old \o new}

\* line 137: list(set(old + new))
MergeList(old, new) == ListOfSet(old \o new)

\* lines 135-137: the values session["intel"] can have after the loop
RECURSIVE MergeKeys(_, _, _)
MergeKeys(keys, session_intel, intel) ==
  IF keys = <<>> THEN {session_intel}
  ELSE LET key == Head(keys)
           rest == MergeKeys(Tail(keys), session_intel, intel)
       IN  IF key \in DOMAIN session_intel
           THEN {[m EXCEPT ![key] = p] :
                   m \in rest, p \in MergeList(session_intel[key], intel[key])}
           ELSE rest

MergeIntel(session_intel, intel) == MergeKeys(IntelKeySeq, session_intel, intel)

\* lines 146-151 without the test of callbackSent
CallbackDueUnlatched(session) ==
  /\ session.scamDetected
  /\ Len(session.messages) >= MIN_MESSAGES_FOR_CALLBACK

\* lines 146-151
CallbackDue(session) ==
  /\ session.scamDetected
  /\ Len(session.messages) >= MIN_MESSAGES_FOR_CALLBACK
  /\ ~session.callbackSent

\* a report that counts the messages before the one of the request
PayloadBeforeAppend(session_id, session, message_count) ==
  [sessionId              |-> session_id,
   scamDetected           |-> TRUE,
   totalMessagesExchanged |-> message_count - 1,
   extractedIntelligence  |-> session.intel,
   agentNotes             |-> "Multi-turn urgency-based financial scam detected",
   finalScamScore         |-> session.scamScore,
   timestamp              |-> now]

\* lines 152-160
Payload(session_id, session, message_count) ==
  [sessionId              |-> session_id,
   scamDetected           |-> TRUE,
   totalMessagesExchanged |-> message_count,
   extractedIntelligence  |-> session.intel,
   agentNotes             |-> "Multi-turn urgency-based financial scam detected",
   finalScamScore         |-> session.scamScore,
   timestamp              |-> now]

\* lines 161-162 with the flag set only when the delivery succeeded
SetCallbackSentIfDelivered(session, result) ==
  IF result THEN [session EXCEPT !.callbackSent = TRUE] ELSE session

\* lines 161-162: the flag is set after the call, whatever it returned
SetCallbackSent(session, result) == [session EXCEPT !.callbackSent = TRUE]

\* the response of an endpoint: lines 169-175 and 204-207 on success, the
\* HTTPException of lines 81, 91, 181, 197, 202 otherwise
Response(status, endpoint, session_id) ==
  [status |-> status, endpoint |-> endpoint, sessionId |-> session_id,
   reply |-> None, scamDetected |-> FALSE, scamScore |-> 0, messageCount |-> 0,
   session |-> None]

ChatResponse(session_id, reply, session, message_count) ==
  [Response(200, "chat", session_id) EXCEPT
     !.reply = reply, !.scamDetected = session.scamDetected,
     !.scamScore = session.scamScore, !.messageCount = message_count]

NoResponse == Response(0, "", "")

\* line 161: what send_final_callback can return for a payload
SendResults(payload) ==
  {send_final_callback(payload, MAX_RETRIES, outcomes).result :
     outcomes \in [1..MAX_RETRIES -> ChatPostOutcomes]}

\* POST /chat handled from the first line to the last with no other request
\* in between.  load_fault and save_fault are what the two Redis calls end
\* in ("ok" or a fault), gen what the Gemini call does.
Chat(x_api_key, session_id, t, history, load_fault, save_fault, gen) ==
  LET message == Message(t)
      text == strip(Chars(t))
  IN
  IF x_api_key # API_KEY
  THEN /\ response' = Response(401, "chat", session_id)
       /\ UNCHANGED <<config, sweep, redis, sessions, heap, now, callbacks, responses,
                      pc, frame>>
  ELSE IF text = <<>>
  THEN /\ response' = Response(400, "chat", session_id)
       /\ UNCHANGED <<config, sweep, redis, sessions, heap, now, callbacks, responses,
                      pc, frame>>
  ELSE
    LET found == Resolve(session_id, load_fault)
        s3 == LatchScam(AddScore(AppendMessage(found.value, message), text), text)
    IN
    /\ Len(found.value.messages) < MaxMessages
    /\ CallbackDue(s3) => Len(callbacks) < MaxCallbacks
    /\ \E merged \in UNION {MergeIntel(s3.intel, intel) : intel \in extract_of[text]} :
         LET s4 == [s3 EXCEPT !.intel = merged]
             r == generate_agent_reply(text, history, gen)
         IN
         IF r.raised
         THEN \* line 181; an object reached through memory.sessions keeps
              \* what lines 120-137 did to it
              /\ heap' = IF found.from_map
                         THEN [heap EXCEPT ![sessions[session_id]] = s4]
                         ELSE heap
              /\ response' = Response(500, "chat", session_id)
              /\ UNCHANGED <<config, sweep, redis, sessions, now, callbacks, responses,
                             pc, frame>>
         ELSE
           LET message_count == Len(s4.messages)
               due == CallbackDue(s4)
               payload == Payload(session_id, s4, message_count)
           IN
           \E result \in (IF due THEN SendResults(payload) ELSE {FALSE}) :
             LET s5 == IF due THEN SetCallbackSent(s4, result) ELSE s4
                 ref == IF found.from_map THEN sessions[session_id] ELSE NewRef(heap)
                 norm == Normalize(Put(heap, ref, s5),
                                   Put(sessions, session_id, ref), frame)
             IN
             /\ callbacks' = IF due
                             THEN Append(callbacks,
                                         [payload |-> payload, result |-> result])
                             ELSE callbacks
             /\ redis' = save_session(session_id, s5, save_fault).redis
             /\ heap' = norm.heap
             /\ sessions' = norm.sessions
             /\ response' = ChatResponse(session_id, r.reply, s5, message_count)
             /\ responses' = [responses EXCEPT ![session_id] = Some(response')]
             /\ UNCHANGED <<config, sweep, now, pc, frame>>

\* the inspection answering whatever the key
GetSessionInfoOpen(x_api_key, session_id, load_fault) ==
  /\ response' =
       LET found == Resolve(session_id, load_fault)
       IN  IF ~found.exists THEN Response(404, "session", session_id)
           ELSE [Response(200, "session", session_id) EXCEPT
                   !.session = Some(found.value)]
  /\ UNCHANGED <<config, sweep, redis, sessions, heap, now, callbacks, responses, pc, frame>>

\* GET /session/{session_id}
GetSessionInfo(x_api_key, session_id, load_fault) ==
  /\ response' =
       IF x_api_key # API_KEY THEN Response(401, "session", session_id)
       ELSE LET found == Resolve(session_id, load_fault)
            IN  IF ~found.exists THEN Response(404, "session", session_id)
                ELSE [Response(200, "session", session_id) EXCEPT
                        !.session = Some(found.value)]
  /\ UNCHANGED <<config, sweep, redis, sessions, heap, now, callbacks, responses, pc, frame>>

\* the second server before its first request
NoTwin ==
  [sessions |-> EmptyDict, callbacks |-> <<>>, response |-> NoResponse,
   raised |-> FALSE]

(***************************************************************************)
(* The server handling one request after the other, with a Redis server    *)
(* that answers every call, and no time passing.                           *)
(***************************************************************************)
Init ==
  /\ redis_client \in {"none", "client"}
  /\ GUVI_CALLBACK_URL \in BOOLEAN
  /\ client = "none"
  /\ tz = UTC
  /\ redis = EmptyDict
  /\ sessions = EmptyDict
  /\ heap = EmptyDict
  /\ now = 0
  /\ callbacks = <<>>
  /\ response = NoResponse
  /\ responses = [sid \in SessionIds |-> None]
  /\ pc = [t \in Threads |-> "idle"]
  /\ frame = [t \in Threads |-> IdleFrame]
  /\ call = NoCall
  /\ sweep = IdleSweep
  /\ twin = NoTwin

GenChoices == IF client = "none" THEN {"unused"} ELSE GenOutcomes

\* the session id the requests of the sequential runs are for
OneId == {SessionIdSeq[1]}

\* the texts that pass the validation of line 90
ValidTexts == {t \in Texts : strip(Chars(t)) # <<>>}

\* an authorized request with a valid text: its history is absent (null) or
\* empty
ChatRequest ==
  \E session_id \in OneId, t \in ValidTexts, history \in {None, Some(<<>>)},
     gen \in GenChoices :
    /\ Chat(API_KEY, session_id, t, history, "ok", "ok", gen)
    /\ UNCHANGED <<call, twin>>

Next == ChatRequest

Spec == Init /\ [][Next]_vars

(***************************************************************************)
(* The server handling one request after the other, with a Redis client    *)
(* whose calls can fail: get_session and save_session absorb the fault.    *)
(***************************************************************************)
InitFail ==
  /\ Init
  /\ redis_client = "client"
  /\ GUVI_CALLBACK_URL

\* the texts that is_scam accepts
ScamTexts == {t \in ValidTexts : is_scam_of[strip(Chars(t))]}

ChatRequestFail ==
  \E session_id \in OneId, t \in ScamTexts,
     load_fault \in {"ok"} \cup LoadFaults,
     save_fault \in {"ok"} \cup SaveFaults :
    /\ Chat(API_KEY, session_id, t, Some(<<>>), load_fault, save_fault, "unused")
    /\ UNCHANGED <<call, twin>>

NextFail == ChatRequestFail

SpecFail == InitFail /\ [][NextFail]_vars

(***************************************************************************)
(* The server handling one request after the other, of either endpoint,    *)
(* with any API key, text and history, a Redis client whose loads can      *)
(* fail, and a Gemini client that may be absent, fail or answer.           *)
(***************************************************************************)
InitApi ==
  /\ redis_client \in {"none", "client"}
  /\ GUVI_CALLBACK_URL \in BOOLEAN
  /\ client \in {"none", "gemini"}
  /\ tz = UTC
  /\ redis = EmptyDict
  /\ sessions = EmptyDict
  /\ heap = EmptyDict
  /\ now = 0
  /\ callbacks = <<>>
  /\ response = NoResponse
  /\ responses = [sid \in SessionIds |-> None]
  /\ pc = [t \in Threads |-> "idle"]
  /\ frame = [t \in Threads |-> IdleFrame]
  /\ call = NoCall
  /\ sweep = IdleSweep
  /\ twin = NoTwin

\* the request as the server receives it, and what the Redis server does to
\* the load of line 97 or 199
Request(op, x_api_key, session_id, t, history, load_fault) ==
  [op     |-> op,
   args   |-> [x_api_key |-> x_api_key, session_id |-> session_id, text |-> t,
               history |-> history, load_fault |-> load_fault],
   result |-> [none |-> TRUE]]

\* a text of white space only
IsBlank(t) == \A i \in DOMAIN Chars(t) : Chars(t)[i] \in Whitespace

\* the texts that fail the validation of line 90
BlankTexts == {t \in Texts : IsBlank(t)}

\* POST /chat with a key that is not the configured one
UnauthorizedChat ==
  \E x_api_key \in ApiKeys \ {API_KEY}, session_id \in OneId,
     t \in ScamTexts \cup BlankTexts :
    /\ Chat(x_api_key, session_id, t, Some(<<>>), "ok", "ok", "unused")
    /\ call' = Request("chat", x_api_key, session_id, t, Some(<<>>), "ok")
    /\ UNCHANGED twin

\* POST /chat with the key and a text that is empty after trimming
BlankChat ==
  \E session_id \in OneId, t \in BlankTexts, history \in {None, Some(<<>>)} :
    /\ Chat(API_KEY, session_id, t, history, "ok", "ok", "unused")
    /\ call' = Request("chat", API_KEY, session_id, t, history, "ok")
    /\ UNCHANGED twin

\* one Gemini outcome for each reply generate_agent_reply can return
GenSent(t, history) ==
  {CHOOSE gen \in GenChoices :
     generate_agent_reply(strip(Chars(t)), history, gen) = r :
       r \in {generate_agent_reply(strip(Chars(t)), history, gen) :
                gen \in GenChoices}}

\* POST /chat with the key and a text
ValidChat ==
  \E session_id \in OneId, t \in ScamTexts, history \in {None, Some(<<>>)},
     load_fault \in {"ok"} \cup LoadFaults :
    \E gen \in GenSent(t, history) :
      /\ Chat(API_KEY, session_id, t, history, load_fault, "ok", gen)
      /\ call' = Request("chat", API_KEY, session_id, t, history, load_fault)
      /\ UNCHANGED twin

\* GET /session/{session_id} with a key that is not the configured one
UnauthorizedSessionInfo ==
  \E x_api_key \in ApiKeys \ {API_KEY}, session_id \in OneId :
    /\ GetSessionInfo(x_api_key, session_id, "ok")
    /\ call' = Request("session", x_api_key, session_id, "", None, "ok")
    /\ UNCHANGED twin

\* GET /session/{session_id} with the key
SessionInfoRequest ==
  \E session_id \in OneId, load_fault \in {"ok"} \cup LoadFaults :
    /\ GetSessionInfo(API_KEY, session_id, load_fault)
    /\ call' = Request("session", API_KEY, session_id, "", None, load_fault)
    /\ UNCHANGED twin

NextApi ==
  \/ UnauthorizedChat
  \/ BlankChat
  \/ ValidChat
  \/ UnauthorizedSessionInfo
  \/ SessionInfoRequest

SpecApi == InitApi /\ [][NextApi]_vars

(***************************************************************************)
(* The server with a Redis client whose loads are answered and whose       *)
(* saves can fail.                                                         *)
(***************************************************************************)
ChatRequestSaveFail ==
  \E session_id \in OneId, t \in ScamTexts, save_fault \in {"ok"} \cup SaveFaults :
    /\ Chat(API_KEY, session_id, t, Some(<<>>), "ok", save_fault, "unused")
    /\ call' = [Request("chat", API_KEY, session_id, t, Some(<<>>), "ok") EXCEPT
                  !.result = [save_fault |-> save_fault]]
    /\ UNCHANGED twin

SpecSaveFail == InitFail /\ [][ChatRequestSaveFail]_vars

(***************************************************************************)
(* The server with a Redis client and a Redis server that answers every    *)
(* call, with the clock advancing by the TTL of a key or a second more     *)
(* between requests.                                                       *)
(***************************************************************************)
ChatRequestExpiry ==
  \E session_id \in OneId, t \in ScamTexts :
    /\ Chat(API_KEY, session_id, t, Some(<<>>), "ok", "ok", "unused")
    /\ call' = Request("chat", API_KEY, session_id, t, Some(<<>>), "ok")
    /\ UNCHANGED twin

\* no request arrives for seconds seconds
Wait ==
  \E seconds \in {SESSION_TTL, SESSION_TTL + 1} :
    /\ now < MaxWaits * SESSION_TTL
    /\ now' = now + seconds
    /\ call' = NoCall
    /\ UNCHANGED <<config, redis, sessions, heap, callbacks, response, responses,
                   pc, frame, sweep, twin>>

NextExpiry == ChatRequestExpiry \/ Wait

SpecExpiry == InitFail /\ [][NextExpiry]_vars

(***************************************************************************)
(* send_final_callback called on its own, with every value of max_retries  *)
(* up to MaxRetries and every outcome of each post.                        *)
(***************************************************************************)
InitCallback ==
  /\ redis_client = "none"
  /\ GUVI_CALLBACK_URL \in BOOLEAN
  /\ client = "none"
  /\ tz = UTC
  /\ redis = EmptyDict
  /\ sessions = EmptyDict
  /\ heap = EmptyDict
  /\ now = 0
  /\ callbacks = <<>>
  /\ response = NoResponse
  /\ responses = [sid \in SessionIds |-> None]
  /\ pc = [t \in Threads |-> "idle"]
  /\ frame = [t \in Threads |-> IdleFrame]
  /\ call = NoCall
  /\ sweep = IdleSweep
  /\ twin = NoTwin

\* a payload as lines 152-160 build it
SomePayload == Payload(SessionIdSeq[1], NewSession(SessionIdSeq[1]), MIN_MESSAGES_FOR_CALLBACK)

SendFinalCallback ==
  \E max_retries \in 0..MaxRetries :
    \E outcomes \in [1..max_retries -> PostOutcomes] :
      /\ call' = [op     |-> "send_final_callback",
                  args   |-> [payload |-> SomePayload, max_retries |-> max_retries,
                              outcomes |-> outcomes],
                  result |-> send_final_callback(SomePayload, max_retries, outcomes)]
      /\ UNCHANGED <<config, redis, sessions, heap, now, callbacks, response,
                     responses, pc, frame, sweep, twin>>

NextCallback == SendFinalCallback

SpecCallback == InitCallback /\ [][NextCallback]_vars

(***************************************************************************)
(* memory.py: cleanup_old_sessions, called between requests of a server    *)
(* that has no Redis client, with the clock advancing.                     *)
(***************************************************************************)
\* lines 28-36: the ids the scan marks, given the value of line 25
ToDelete(ss, h, current_time, max_age_seconds) ==
  {session_id \in DOMAIN ss :
     current_time - timestamp(h[ss[session_id]].lastUpdated) > max_age_seconds}

\* lines 39-41
DeleteAll(ss, to_delete) == [session_id \in DOMAIN ss \ to_delete |-> ss[session_id]]

\* cleanup_old_sessions(max_age_seconds) from the first line to the last:
\* the map and the objects afterwards, and the ids deleted
cleanup_old_sessions(max_age_seconds) ==
  LET to_delete == ToDelete(sessions, heap, timestamp(now), max_age_seconds)
      norm == Normalize(heap, DeleteAll(sessions, to_delete), frame)
  IN  [sessions |-> norm.sessions, heap |-> norm.heap, to_delete |-> to_delete]

InitSweep ==
  /\ redis_client = "none"
  /\ GUVI_CALLBACK_URL = FALSE
  /\ client = "none"
  /\ tz \in TimeZones
  /\ redis = EmptyDict
  /\ sessions = EmptyDict
  /\ heap = EmptyDict
  /\ now = 0
  /\ callbacks = <<>>
  /\ response = NoResponse
  /\ responses = [sid \in SessionIds |-> None]
  /\ pc = [t \in Threads |-> "idle"]
  /\ frame = [t \in Threads |-> IdleFrame]
  /\ call = NoCall
  /\ sweep = IdleSweep
  /\ twin = NoTwin

\* the texts is_scam rejects
PlainTexts == ValidTexts \ ScamTexts

\* a request that creates a session or refreshes its lastUpdated
ChatSweep ==
  \E session_id \in SessionIds, t \in PlainTexts :
    /\ session_id \in DOMAIN sessions
         => Len(heap[sessions[session_id]].messages) < MaxSweptMessages
    /\ Chat(API_KEY, session_id, t, Some(<<>>), "ok", "ok", "unused")
    /\ call' = Request("chat", API_KEY, session_id, t, Some(<<>>), "ok")
    /\ UNCHANGED twin

\* the clock advancing
Tick ==
  /\ now < MaxTime
  /\ now' = now + 1
  /\ call' = NoCall
  /\ UNCHANGED <<config, redis, sessions, heap, callbacks, response, responses,
                 pc, frame, sweep, twin>>

Cleanup ==
  \E max_age_seconds \in 0..MaxAge :
    LET done == cleanup_old_sessions(max_age_seconds)
    IN  /\ sessions' = done.sessions
        /\ heap' = done.heap
        /\ call' = [op     |-> "cleanup_old_sessions",
                    args   |-> [max_age_seconds |-> max_age_seconds],
                    result |-> [to_delete |-> done.to_delete]]
        /\ UNCHANGED <<config, redis, now, callbacks, response, responses, pc,
                       frame, sweep, twin>>

NextSweep == ChatSweep \/ Tick \/ Cleanup

SpecSweep == InitSweep /\ [][NextSweep]_vars

(***************************************************************************)
(* chat() as the steps of a thread of the pool: FastAPI runs a def         *)
(* endpoint in a worker thread, and main.py takes no lock, so the steps of *)
(* two requests interleave.                                                *)
(***************************************************************************)
\* the thread's local variable text (line 84)
TextOf(t) == strip(Chars(frame[t].message.text))

\* lines 79-117: the request is accepted and its session loaded or created
Load(t, session_id, txt, history, load_fault) ==
  LET found == Resolve(session_id, load_fault)
      ref == IF found.from_map THEN sessions[session_id] ELSE NewRef(heap)
      norm == Normalize(Put(heap, ref, found.value), sessions,
                        [frame EXCEPT ![t] =
                           [IdleFrame EXCEPT !.session_id = session_id,
                                             !.message = Message(txt),
                                             !.history = history,
                                             !.session = ref]])
  IN
  /\ pc[t] = "idle"
  /\ Len(found.value.messages) < MaxMessages
  /\ heap' = norm.heap
  /\ sessions' = norm.sessions
  /\ frame' = norm.frame
  /\ pc' = [pc EXCEPT ![t] = "mutate"]
  /\ UNCHANGED <<config, call, sweep, twin, redis, now, callbacks, response, responses>>

\* lines 120-137: message, score, latch and intel, on the loaded object
Mutate(t) ==
  LET ref == frame[t].session
      s3 == LatchScam(AddScore(AppendMessage(heap[ref], frame[t].message),
                               TextOf(t)), TextOf(t))
  IN
  /\ pc[t] = "mutate"
  /\ \E merged \in UNION {MergeIntel(s3.intel, intel) :
                            intel \in extract_of[TextOf(t)]} :
       heap' = [heap EXCEPT ![ref] = [s3 EXCEPT !.intel = merged]]
  /\ pc' = [pc EXCEPT ![t] = "check"]
  /\ UNCHANGED <<config, call, sweep, twin, redis, sessions, now, callbacks, response, responses,
                 frame>>

\* lines 140-151: the reply, then the test of the callback condition
Check(t, gen) ==
  LET session == heap[frame[t].session]
      r == generate_agent_reply(TextOf(t), frame[t].history, gen)
  IN
  /\ pc[t] = "check"
  /\ IF r.raised
     THEN LET norm == Normalize(heap, sessions,
                                [frame EXCEPT ![t] = IdleFrame])
          IN  /\ heap' = norm.heap
              /\ sessions' = norm.sessions
              /\ frame' = norm.frame
              /\ pc' = [pc EXCEPT ![t] = "idle"]
              /\ response' = Response(500, "chat", frame[t].session_id)
     ELSE /\ frame' = [frame EXCEPT ![t].reply = r.reply,
                                    ![t].message_count = Len(session.messages),
                                    ![t].due = CallbackDue(session)]
          /\ pc' = [pc EXCEPT ![t] =
                      IF CallbackDue(session) THEN "send" ELSE "save"]
          /\ UNCHANGED <<heap, sessions, response>>
  /\ UNCHANGED <<config, call, sweep, twin, redis, now, callbacks, responses>>

\* lines 152-161: the payload is built and send_final_callback called
Send(t) ==
  LET payload == Payload(frame[t].session_id, heap[frame[t].session],
                         frame[t].message_count)
  IN
  /\ pc[t] = "send"
  /\ Len(callbacks) < MaxCallbacks
  /\ \E result \in SendResults(payload) :
       /\ callbacks' = Append(callbacks,
                              [payload |-> payload, result |-> result])
       /\ frame' = [frame EXCEPT ![t].result = result]
  /\ pc' = [pc EXCEPT ![t] = "set"]
  /\ UNCHANGED <<config, call, sweep, twin, redis, sessions, heap, now, response, responses>>

\* line 162
Set(t) ==
  /\ pc[t] = "set"
  /\ heap' = [heap EXCEPT ![frame[t].session] =
                SetCallbackSent(@, frame[t].result)]
  /\ pc' = [pc EXCEPT ![t] = "save"]
  /\ UNCHANGED <<config, call, sweep, twin, redis, sessions, now, callbacks, response, responses,
                 frame>>

\* lines 166-175: both stores are written and the response returned
Save(t, save_fault) ==
  LET session_id == frame[t].session_id
      session == heap[frame[t].session]
      norm == Normalize(heap, Put(sessions, session_id, frame[t].session),
                        [frame EXCEPT ![t] = IdleFrame])
  IN
  /\ pc[t] = "save"
  /\ redis' = save_session(session_id, session, save_fault).redis
  /\ heap' = norm.heap
  /\ sessions' = norm.sessions
  /\ frame' = norm.frame
  /\ pc' = [pc EXCEPT ![t] = "idle"]
  /\ response' = ChatResponse(session_id, frame[t].reply, session,
                              frame[t].message_count)
  /\ responses' = [responses EXCEPT ![session_id] = Some(response')]
  /\ UNCHANGED <<config, call, sweep, twin, now, callbacks>>

(***************************************************************************)
(* The server handling the requests for one id in concurrent threads, with *)
(* a Redis server that answers every call.                                 *)
(***************************************************************************)
InitConc ==
  /\ Init
  /\ GUVI_CALLBACK_URL

NextConc ==
  \E t \in Threads :
    \/ \E session_id \in OneId, txt \in ScamTexts :
         Load(t, session_id, txt, Some(<<>>), "ok")
    \/ Mutate(t)
    \/ Check(t, "unused")
    \/ Send(t)
    \/ Set(t)
    \/ Save(t, "ok")

SpecConc == InitConc /\ [][NextConc]_vars

(***************************************************************************)
(* The server handling requests for different ids in concurrent threads:   *)
(* every thread that serves has an id of its own.                          *)
(***************************************************************************)
\* the id thread t handles requests for
IdOf(t) == SessionIdSeq[t]

\* the histories of the requests of thread t: the requests of the first
\* thread may carry conversationHistory null, which fails them at line 72
\* of agent.py
HistoriesOf(t) == IF t = 1 THEN {None, Some(<<>>)} ELSE {Some(<<>>)}

NextDistinct ==
  \E t \in {u \in Threads : u <= Len(SessionIdSeq)} :
    \/ \E txt \in ScamTexts, history \in HistoriesOf(t) :
         Load(t, IdOf(t), txt, history, "ok")
    \/ Mutate(t)
    \/ Check(t, "unused")
    \/ Send(t)
    \/ Set(t)
    \/ Save(t, "ok")

SpecDistinct == InitConc /\ [][NextDistinct]_vars

(***************************************************************************)
(* cleanup_old_sessions as the steps of a thread of its own, interleaved   *)
(* with the steps of chat() in the threads of the pool: memory.py and      *)
(* main.py take no lock.  The server has no Redis client and its zone is   *)
(* UTC.  The texts are the ones is_scam rejects, so that no request        *)
(* reaches lines 152-162.                                                  *)
(***************************************************************************)
InitSweepConc ==
  /\ InitSweep
  /\ tz = UTC

\* lines 22-28: the clock is read and the iteration over sessions.items()
\* starts; the iterator remembers the size of the dict
SweepStart(max_age_seconds) ==
  /\ sweep.pc \in {"idle", "raised"}
  /\ sweep' = IF sessions = EmptyDict THEN IdleSweep
              ELSE [pc |-> "scan", max_age_seconds |-> max_age_seconds,
                    current_time |-> timestamp(now), items |-> DOMAIN sessions,
                    size |-> Cardinality(DOMAIN sessions), to_delete |-> <<>>]
  /\ UNCHANGED <<config, call, twin, redis, sessions, heap, now, callbacks,
                 response, responses, pc, frame>>

\* lines 28-36: the iterator is advanced.  It raises RuntimeError
\* (dictionary changed size during iteration) when a key was added since
\* line 28; at the end the deletions start; else the next item is tested.
SweepScan ==
  /\ sweep.pc = "scan"
  /\ IF Cardinality(DOMAIN sessions) # sweep.size
     THEN sweep' = [IdleSweep EXCEPT !.pc = "raised"]
     ELSE IF sweep.items = {}
     THEN sweep' = [sweep EXCEPT !.pc = "delete"]
     ELSE \E session_id \in sweep.items :
            sweep' = [sweep EXCEPT
                        !.items = @ \ {session_id},
                        !.to_delete =
                          IF session_id \in ToDelete(sessions, heap, sweep.current_time,
                                                     sweep.max_age_seconds)
                          THEN Append(@, session_id) ELSE @]
  /\ UNCHANGED <<config, call, twin, redis, sessions, heap, now, callbacks,
                 response, responses, pc, frame>>

\* lines 39-41: one del sessions[session_id]
SweepDelete ==
  /\ sweep.pc = "delete"
  /\ IF sweep.to_delete = <<>>
     THEN /\ sweep' = IdleSweep
          /\ UNCHANGED <<sessions, heap, frame>>
     ELSE LET norm == Normalize(heap, DeleteAll(sessions, {Head(sweep.to_delete)}),
                                frame)
          IN  /\ sessions' = norm.sessions
              /\ heap' = norm.heap
              /\ frame' = norm.frame
              /\ sweep' = [sweep EXCEPT !.to_delete = Tail(@)]
  /\ UNCHANGED <<config, call, twin, redis, now, callbacks, response, responses, pc>>

\* the clock advancing while threads run
TickConc ==
  /\ now < MaxTime
  /\ now' = now + 1
  /\ UNCHANGED <<config, call, sweep, twin, redis, sessions, heap, callbacks,
                 response, responses, pc, frame>>

\* the thread of the pool that handles the requests
ChatThreads == {1}

NextSweepConc ==
  \/ \E t \in ChatThreads :
       \/ \E session_id \in SessionIds, txt \in PlainTexts :
            /\ session_id \in DOMAIN sessions
                 => Len(heap[sessions[session_id]].messages) < MaxSweptMessages
            /\ Load(t, session_id, txt, Some(<<>>), "ok")
       \/ Mutate(t)
       \/ Check(t, "unused")
       \/ Save(t, "ok")
  \/ \E max_age_seconds \in 0..MaxAge : SweepStart(max_age_seconds)
  \/ SweepScan
  \/ SweepDelete
  \/ TickConc

SpecSweepConc == InitSweepConc /\ [][NextSweepConc]_vars

(***************************************************************************)
(* Two servers sent the same requests one after the other: the first has a *)
(* Redis client and a Redis server that answers every call, the second     *)
(* (twin) has no Redis client and keeps its sessions in memory.sessions     *)
(* alone.  twin.sessions maps an id to the dict object of the second       *)
(* server's map; twin.callbacks are the payloads it sent; twin.raised      *)
(* tells that a request ended in HTTP 500.                                 *)
(***************************************************************************)
\* chat() of the second server: the values twin can have afterwards
TwinChat(x_api_key, session_id, t, history, gen) ==
  LET text == strip(Chars(t))
  IN
  IF x_api_key # API_KEY
  THEN {[twin EXCEPT !.response = Response(401, "chat", session_id)]}
  ELSE IF text = <<>>
  THEN {[twin EXCEPT !.response = Response(400, "chat", session_id)]}
  ELSE
    LET in_map == session_id \in DOMAIN twin.sessions
        session == IF in_map THEN twin.sessions[session_id]
                   ELSE NewSession(session_id)
        s3 == LatchScam(AddScore(AppendMessage(session, Message(t)), text), text)
        r == generate_agent_reply(text, history, gen)
    IN
    {IF r.raised
     THEN [twin EXCEPT
             !.sessions = IF in_map THEN Put(@, session_id, [s3 EXCEPT !.intel = merged])
                          ELSE @,
             !.response = Response(500, "chat", session_id),
             !.raised = TRUE]
     ELSE LET s4 == [s3 EXCEPT !.intel = merged]
              message_count == Len(s4.messages)
              due == CallbackDue(s4)
              s5 == IF due THEN SetCallbackSent(s4, TRUE) ELSE s4
          IN  [twin EXCEPT
                 !.sessions = Put(@, session_id, s5),
                 !.callbacks = IF due
                               THEN Append(@, Payload(session_id, s4, message_count))
                               ELSE @,
                 !.response = ChatResponse(session_id, r.reply, s5, message_count)] :
       merged \in UNION {MergeIntel(s3.intel, intel) : intel \in extract_of[text]}}

\* get_session_info() of the second server
TwinGetSessionInfo(x_api_key, session_id) ==
  [twin EXCEPT
     !.response =
       IF x_api_key # API_KEY THEN Response(401, "session", session_id)
       ELSE IF session_id \notin DOMAIN twin.sessions
       THEN Response(404, "session", session_id)
       ELSE [Response(200, "session", session_id) EXCEPT
               !.session = Some(twin.sessions[session_id])]]

InitPair ==
  /\ Init
  /\ redis_client = "client"
  /\ GUVI_CALLBACK_URL

\* the messages of the second server's session for an id
TwinLen(session_id) ==
  IF session_id \in DOMAIN twin.sessions
  THEN Len(twin.sessions[session_id].messages) ELSE 0

PairChat ==
  \E session_id \in OneId, t \in ScamTexts, history \in {None, Some(<<>>)} :
    /\ TwinLen(session_id) < MaxMessages
    /\ Chat(API_KEY, session_id, t, history, "ok", "ok", "unused")
    /\ twin' \in TwinChat(API_KEY, session_id, t, history, "unused")
    /\ call' = Request("chat", API_KEY, session_id, t, history, "ok")

PairSessionInfo ==
  \E session_id \in OneId :
    /\ GetSessionInfo(API_KEY, session_id, "ok")
    /\ twin' = TwinGetSessionInfo(API_KEY, session_id)
    /\ call' = Request("session", API_KEY, session_id, "", None, "ok")

NextPair == PairChat \/ PairSessionInfo

SpecPair == InitPair /\ [][NextPair]_vars

(***************************************************************************)
(* redis_store.py: save_session and get_session called on their own, with *)
(* a Redis client, calls that are answered or end in a fault, and no time  *)
(* passing.                                                                *)
(***************************************************************************)
\* the dict test_redis saves (lines 177-182)
test_session ==
  [sessionId    |-> SessionIdSeq[1],
   messages     |-> <<[sender |-> "user", text |-> "test", timestamp |-> 123456]>>,
   scamDetected |-> FALSE,
   scamScore    |-> 0]

\* the sessions chat() saves after the first message of an id
FirstSessions ==
  UNION {LET text == strip(Chars(t))
             s3 == LatchScam(AddScore(AppendMessage(NewSession(session_id),
                                                    Message(t)), text), text)
         IN  {[s3 EXCEPT !.intel = merged] :
                merged \in UNION {MergeIntel(s3.intel, intel) :
                                    intel \in extract_of[text]}} :
           session_id \in SessionIds, t \in ValidTexts}

\* the dicts save_session is called with
StoreSessions ==
  {test_session} \cup {NewSession(session_id) : session_id \in SessionIds}
    \cup FirstSessions

InitStore ==
  /\ Init
  /\ redis_client = "client"
  /\ GUVI_CALLBACK_URL

SaveSession ==
  \E session_id \in SessionIds, data \in StoreSessions,
     fault \in {"ok"} \cup SaveFaults :
    LET saved == save_session(session_id, data, fault)
    IN  /\ redis' = saved.redis
        /\ call' = [op     |-> "save_session",
                    args   |-> [session_id |-> session_id, data |-> data],
                    result |-> [result |-> saved.result,
                                \* whether the server held the key before
                                held |-> session_id \in DOMAIN redis]]
        /\ UNCHANGED <<config, sessions, heap, now, callbacks, response,
                       responses, pc, frame, sweep, twin>>

GetSession ==
  \E session_id \in SessionIds, fault \in {"ok"} \cup LoadFaults :
    /\ call' = [op     |-> "get_session",
                args   |-> [session_id |-> session_id, fault |-> fault],
                result |-> [result |-> get_session(session_id, fault)]]
    /\ UNCHANGED <<config, redis, sessions, heap, now, callbacks, response,
                   responses, pc, frame, sweep, twin>>

NextStore == SaveSession \/ GetSession

SpecStore == InitStore /\ [][NextStore]_vars

(***************************************************************************)
(* What the stores hold, as the properties below read it                   *)
(***************************************************************************)
\* the object memory.sessions holds for an id
MapSession(sid) == heap[sessions[sid]]

\* the session a Redis key decodes to
RedisSession(sid) == json_loads(redis[sid].value)

\* the sessions the stores hold for an id
StoredSessions(sid) ==
  {MapSession(s) : s \in {sid} \cap DOMAIN sessions}
    \cup {RedisSession(s) : s \in {sid} \cap DOMAIN redis}

\* the Reporter invocations made for an id
CallbacksFor(sid) ==
  {i \in DOMAIN callbacks : callbacks[i].payload.sessionId = sid}

\* the text of line 84 for each message text
stripped == [t \in Texts |-> strip(Chars(t))]

\* detect_scam_score of a recorded message, as line 124 computed it
MessageScore(m) == score_of[stripped[m.text]]

MessageScores(messages) == [i \in DOMAIN messages |-> MessageScore(messages[i])]

\* the last response was a success of POST /chat
ChatSucceeded == response.status = 200 /\ response.endpoint = "chat"

(***************************************************************************)
(* Properties of sequential runs                                           *)
(***************************************************************************)
\* C1: in sequential runs with no store failure and no expiry,
\* send_final_callback is invoked at most once for every session id, also
\* when further qualifying messages arrive after the first one.
C1_AtMostOneCallback ==
  \A sid \in SessionIds : Cardinality(CallbacksFor(sid)) <= 1

\* a qualifying message (scam detected, more than 8 messages) was handled
\* after the callback, and there is still one invocation
C1_Witness ==
  /\ ChatSucceeded
  /\ \E sid \in DOMAIN sessions :
       LET s == MapSession(sid) IN
       /\ s.callbackSent /\ s.scamDetected
       /\ Len(s.messages) > MIN_MESSAGES_FOR_CALLBACK
       /\ MessageScore(s.messages[Len(s.messages)]) >= THRESHOLD
       /\ \E i \in CallbacksFor(sid) :
            callbacks[i].payload.totalMessagesExchanged < Len(s.messages)
       /\ Cardinality(CallbacksFor(sid)) = 1

\* C4: when the callback condition was met in a request, the session that
\* request saved has callbackSent true whatever send_final_callback returned,
\* and no later request invokes it again.
C4_LatchedWhateverTheResult ==
  \A i \in DOMAIN callbacks :
    LET sid == callbacks[i].payload.sessionId IN
    /\ sid \in DOMAIN sessions
    /\ MapSession(sid).callbackSent
    /\ redis_client = "client" =>
         sid \in DOMAIN redis /\ RedisSession(sid).callbackSent
    /\ \A j \in DOMAIN callbacks :
         callbacks[j].payload.sessionId = sid => j = i

\* a delivery failed although a destination is configured, and a later
\* request of the session succeeded
C4_Witness ==
  /\ ChatSucceeded
  /\ GUVI_CALLBACK_URL
  /\ \E i \in DOMAIN callbacks :
       LET sid == callbacks[i].payload.sessionId IN
       /\ ~callbacks[i].result
       /\ sid \in DOMAIN sessions
       /\ MapSession(sid).callbackSent
       /\ Len(MapSession(sid).messages) >
            callbacks[i].payload.totalMessagesExchanged

\* a store or a response of POST /chat shows scamDetected for an id
MapShows(sid) == sid \in DOMAIN sessions /\ MapSession(sid).scamDetected

RedisShows(sid) == sid \in DOMAIN redis /\ RedisSession(sid).scamDetected

LastResponseShows(sid) ==
  responses[sid] # None /\ responses[sid][1].scamDetected

\* C5: scamDetected is a one-way latch: once a chat response or a stored
\* session of an id shows scamDetected = true, every later stored state
\* of that session and every later response for the id shows it too.
C5_ScamDetectedLatch ==
  [][\A sid \in SessionIds :
       (MapShows(sid) \/ RedisShows(sid) \/ LastResponseShows(sid)) =>
         /\ MapShows(sid) => MapShows(sid)'
         /\ RedisShows(sid) => RedisShows(sid)'
         /\ sid \in DOMAIN sessions' => MapShows(sid)'
         /\ sid \in DOMAIN redis' => RedisShows(sid)'
         /\ LastResponseShows(sid) => LastResponseShows(sid)'
         /\ (ChatSucceeded' /\ response'.sessionId = sid) =>
              response'.scamDetected]_vars

\* a response shows scamDetected after a message that scores below the
\* threshold
C5_Witness ==
  /\ ChatSucceeded
  /\ response.scamDetected
  /\ \E sid \in DOMAIN sessions :
       LET s == MapSession(sid) IN
       /\ sid = response.sessionId
       /\ s.scamDetected
       /\ Len(s.messages) = response.messageCount
       /\ MessageScore(s.messages[Len(s.messages)]) < THRESHOLD

C7_ScoreIsSum ==
  /\ \A sid \in SessionIds : \A s \in StoredSessions(sid) :
       /\ s.scamScore = SumSeq(MessageScores(s.messages))
       /\ s.scamScore >= 0
  /\ ChatSucceeded =>
       response.scamScore = MapSession(response.sessionId).scamScore

C7_ScoreNeverDrops ==
  \A sid \in SessionIds :
    responses[sid] # None =>
      /\ responses'[sid] # None
      /\ responses'[sid][1].scamScore >= responses[sid][1].scamScore

C7_CumulativeScore == []C7_ScoreIsSum /\ [][C7_ScoreNeverDrops]_vars

\* three messages or more, each with a positive score, added up
C7_Witness ==
  /\ ChatSucceeded
  /\ \E sid \in DOMAIN sessions :
       LET s == MapSession(sid) IN
       /\ sid = response.sessionId
       /\ Len(s.messages) >= 3
       /\ \A i \in DOMAIN s.messages : MessageScore(s.messages[i]) > 0
       /\ response.scamScore = s.scamScore
       /\ s.scamScore > MessageScore(s.messages[Len(s.messages)])

\* the entries extract_intelligence finds for each key in a text
extracted_of ==
  [s \in TextStrings |->
     [key \in IntelKeys |-> UNION {Range(intel[key]) : intel \in extract_of[s]}]]

\* the entries extract_intelligence finds for a key in the messages
ExtractedOf(messages, key) ==
  UNION {extracted_of[stripped[messages[i].text]][key] : i \in DOMAIN messages}

\* C8: each of the six intel lists of a stored session has no duplicate
\* entry, holds every entry the list stored before the request held, and is
\* the set union of the extract_intelligence results of the messages
\* recorded in the session.
C8_IntelIsUnion ==
  \A sid \in SessionIds : \A s \in StoredSessions(sid) :
    /\ DOMAIN s.intel = IntelKeys
    /\ \A key \in IntelKeys :
         /\ Len(s.intel[key]) = Cardinality(Range(s.intel[key]))
         /\ Range(s.intel[key]) = ExtractedOf(s.messages, key)

\* every entry of a list is in the list that replaces it
Kept(old_intel, new_intel) ==
  \A key \in IntelKeys : Range(old_intel[key]) \subseteq Range(new_intel[key])

C8_IntelNeverShrinks ==
  \A sid \in SessionIds :
    /\ sid \in DOMAIN sessions =>
         /\ sid \in DOMAIN sessions'
         /\ \/ MapSession(sid)' = MapSession(sid)
            \/ Kept(MapSession(sid).intel, MapSession(sid)'.intel)
    /\ sid \in DOMAIN redis =>
         /\ sid \in DOMAIN redis'
         /\ \/ redis'[sid] = redis[sid]
            \/ Kept(RedisSession(sid).intel, RedisSession(sid)'.intel)

C8_DeduplicatedIntel == []C8_IntelIsUnion /\ [][C8_IntelNeverShrinks]_vars

\* a list of two entries, one of them found in two messages or more, to
\* which some message contributed only a part
C8_Witness ==
  /\ ChatSucceeded
  /\ \E sid \in DOMAIN sessions :
       LET s == MapSession(sid) IN
       /\ Len(s.messages) >= 3
       /\ \E key \in IntelKeys :
            /\ Len(s.intel[key]) >= 2
            /\ \E i, j \in DOMAIN s.messages :
                 /\ i < j
                 /\ ExtractedOf(<<s.messages[i]>>, key) # {}
                 /\ ExtractedOf(<<s.messages[i]>>, key) # Range(s.intel[key])
                 /\ ExtractedOf(<<s.messages[i]>>, key)
                      \cap ExtractedOf(<<s.messages[j]>>, key) # {}

\* the number of the first message that scores THRESHOLD or more
FirstDetected(messages) ==
  CHOOSE i \in DOMAIN messages :
    /\ MessageScore(messages[i]) >= THRESHOLD
    /\ \A j \in 1..(i - 1) : MessageScore(messages[j]) < THRESHOLD

Max(a, b) == IF a >= b THEN a ELSE b

\* C9: in a sequentially processed session the Reporter is invoked exactly
\* once, by the first request after which the session has scamDetected and
\* 8 messages or more, that is at message max(8, first message scoring
\* THRESHOLD or more); it is not invoked before and not again afterwards.
C9_ExactlyOnceWhenFirstDue ==
  \A sid \in SessionIds :
    IF /\ sid \in DOMAIN sessions
       /\ MapSession(sid).scamDetected
       /\ Len(MapSession(sid).messages) >= MIN_MESSAGES_FOR_CALLBACK
    THEN /\ Cardinality(CallbacksFor(sid)) = 1
         /\ \A i \in CallbacksFor(sid) :
              callbacks[i].payload.totalMessagesExchanged =
                Max(MIN_MESSAGES_FOR_CALLBACK,
                    FirstDetected(MapSession(sid).messages))
    ELSE CallbacksFor(sid) = {}

\* C10: a chat request that ends in HTTP 500 leaves the sessions of both
\* stores as they were before it: no message appended, score, scamDetected
\* and intel unchanged.
C10_NothingChangedBy500 ==
  [][response'.status = 500 =>
       /\ DOMAIN sessions' = DOMAIN sessions
       /\ \A sid \in DOMAIN sessions : MapSession(sid)' = MapSession(sid)
       /\ redis' = redis]_vars

(***************************************************************************)
(* Properties of sequential runs with failing store calls                  *)
(***************************************************************************)
\* C3: the Reporter is invoked at most once per session id also when store
\* calls fail in between: after a request fired the callback and its
\* save_session failed, no later request of the id invokes
\* send_final_callback again.
C3_AtMostOneCallbackDespiteFaults ==
  \A i, j \in DOMAIN callbacks :
    callbacks[i].payload.sessionId = callbacks[j].payload.sessionId => i = j

(***************************************************************************)
(* Properties of concurrent runs                                           *)
(***************************************************************************)
\* C2: whatever the interleaving of the steps (load, mutate, check, send,
\* set, save) of chat requests that different threads handle for the same
\* session id, the Reporter is invoked at most once for that id.
C2_AtMostOneCallbackConcurrently ==
  \A sid \in SessionIds :
    \A i, j \in CallbacksFor(sid) : i = j

(***************************************************************************)
(* Properties of the API                                                   *)
(***************************************************************************)
\* the sessions of both stores and the Reporter's log are as they were
NoSideEffect == UNCHANGED <<redis, sessions, heap, callbacks>>

\* C11: a chat request with the configured API key and a text that is not
\* empty after trimming is answered with HTTP 200 and a reply, whatever the
\* store, the Reporter and the reply client do and whether
\* conversationHistory is empty or null.
C11_ValidRequestSucceeds ==
  (/\ call.op = "chat"
   /\ call.args.x_api_key = API_KEY
   /\ ~IsBlank(call.args.text))
    => (response.status = 200 /\ response.reply # None)

\* C12: a chat request with the configured key whose text is empty after
\* trimming is answered with HTTP 400, and the step changes no session of
\* either store, creates none and does not invoke the Reporter.
C12_BlankTextRejected ==
  [][(/\ call'.op = "chat"
      /\ call'.args.x_api_key = API_KEY
      /\ IsBlank(call'.args.text))
       => (/\ response'.status = 400
           /\ response'.reply = None
           /\ NoSideEffect)]_vars

C12_Witness ==
  /\ call.op = "chat"
  /\ call.args.x_api_key = API_KEY
  /\ IsBlank(call.args.text)
  /\ call.args.history = None
  /\ response.status = 400
  /\ call.args.session_id \in DOMAIN sessions
  /\ MapSession(call.args.session_id).scamDetected
  /\ Len(MapSession(call.args.session_id).messages) = MIN_MESSAGES_FOR_CALLBACK - 1

\* C13: a chat request or a session inspection whose key is not the
\* configured one is answered with HTTP 401 and without session data, and
\* the step changes no session of either store and does not invoke the
\* Reporter.
C13_WrongKeyRejected ==
  [][(/\ call'.op \in {"chat", "session"}
      /\ call'.args.x_api_key # API_KEY)
       => (/\ response'.status = 401
           /\ response'.session = None
           /\ response'.reply = None
           /\ NoSideEffect)]_vars

C13_Witness ==
  /\ call.op = "session"
  /\ call.args.x_api_key # API_KEY
  /\ response.status = 401
  /\ call.args.session_id \in DOMAIN sessions
  /\ call.args.session_id \in DOMAIN redis

\* the last request was a valid chat request whose get_session call failed
LoadFailed ==
  /\ call.op = "chat"
  /\ call.args.x_api_key = API_KEY
  /\ ~IsBlank(call.args.text)
  /\ redis_client = "client"
  /\ call.args.load_fault \in LoadFaults

\* C14 as stated: when the Redis load of a chat request fails, the request
\* creates a fresh session: its success response reports messageCount = 1
\* and the stored session holds the request's message only, with a score
\* that is the message's score.
C14_FreshSessionOnLoadFault ==
  [][\A sid \in SessionIds :
       (LoadFailed' /\ call'.args.session_id = sid /\ response'.status = 200)
         => /\ response'.messageCount = 1
            /\ Len(MapSession(sid)'.messages) = 1
            /\ MapSession(sid)'.scamScore =
                 MessageScore(MapSession(sid)'.messages[1])]_vars

\* the session line 97 continues with when get_session returns None
MapOrFresh(sid) ==
  IF sid \in DOMAIN sessions THEN MapSession(sid) ELSE NewSession(sid)

\* C14 amended: when the Redis load of a chat request fails, the request
\* continues with the session the in-process map holds for the id, and with
\* a fresh session only if the map holds none: its success response reports
\* one message more than that session had, and the stored session is that
\* session with the request's message appended and its score added.
C14_MapSessionOnLoadFault ==
  [][\A sid \in SessionIds :
       (LoadFailed' /\ call'.args.session_id = sid /\ response'.status = 200)
         => LET prior == MapOrFresh(sid)
                n     == Len(prior.messages)
            IN  /\ response'.messageCount = n + 1
                /\ Len(MapSession(sid)'.messages) = n + 1
                /\ SubSeq(MapSession(sid)'.messages, 1, n) = prior.messages
                /\ MapSession(sid)'.messages[n + 1].text = call'.args.text
                /\ MapSession(sid)'.scamScore =
                     prior.scamScore + MessageScore(MapSession(sid)'.messages[n + 1])
                /\ prior.scamDetected => MapSession(sid)'.scamDetected
                /\ prior.callbackSent => MapSession(sid)'.callbackSent
                /\ MapSession(sid)'.createdAt = prior.createdAt]_vars

C14_Witness ==
  /\ LoadFailed
  /\ response.status = 200
  /\ response.messageCount >= 2
  /\ call.args.session_id \in DOMAIN redis

(***************************************************************************)
(* Properties of send_final_callback                                       *)
(***************************************************************************)
\* the last call from outside was send_final_callback(payload, max_retries)
SendCalled == call.op = "send_final_callback"

\* C15: with a destination configured and max_retries >= 1,
\* send_final_callback makes between 1 and max_retries posts and returns:
\* True exactly when a post it made got status 200, that post being its last
\* one and the first with status 200; False after max_retries posts none of
\* which got 200 (another status, a timeout, a connection error or another
\* exception).
C15_BoundedRetries ==
  (SendCalled /\ GUVI_CALLBACK_URL /\ call.args.max_retries >= 1)
    => LET outcomes == call.args.outcomes
           posts    == call.result.posts
       IN  /\ posts >= 1
           /\ posts <= call.args.max_retries
           /\ call.result.result \in BOOLEAN
           /\ call.result.result
                <=> \E i \in 1..posts : outcomes[i] = "200"
           /\ \A i \in 1..(posts - 1) : outcomes[i] # "200"
           /\ ~call.result.result => posts = call.args.max_retries

C15_Witness ==
  /\ SendCalled
  /\ GUVI_CALLBACK_URL
  /\ call.args.max_retries = MAX_RETRIES
  /\ call.args.outcomes = <<"Timeout", "200", "500">>
  /\ call.result.posts = 2
  /\ call.result.result

\* C16: with no destination configured send_final_callback makes no post and
\* returns False, whatever max_retries is.
C16_NoDestinationNoAttempt ==
  (SendCalled /\ ~GUVI_CALLBACK_URL)
    => (call.result.posts = 0 /\ call.result.result = FALSE)

C16_Witness ==
  /\ SendCalled
  /\ ~GUVI_CALLBACK_URL
  /\ call.args.max_retries = MAX_RETRIES
  /\ call.args.outcomes = <<"200", "200", "200">>
  /\ call.result.result = FALSE

(***************************************************************************)
(* Properties of cleanup_old_sessions                                      *)
(***************************************************************************)
\* the step is a call of cleanup_old_sessions(max_age_seconds)
CleanupCalled(max_age_seconds) ==
  /\ call'.op = "cleanup_old_sessions"
  /\ call'.args.max_age_seconds = max_age_seconds

\* the step removes the sessions idle for more than max_age_seconds and
\* leaves the other sessions as they were
RemovesExactlyTheIdle(max_age_seconds) ==
  /\ DOMAIN sessions' =
       {sid \in DOMAIN sessions : now - MapSession(sid).lastUpdated <= max_age_seconds}
  /\ \A sid \in DOMAIN sessions' : MapSession(sid)' = MapSession(sid)

\* C17: cleanup_old_sessions(maxAge), called with no request running, removes
\* from the in-process map exactly the sessions with now - lastUpdated >
\* maxAge: the sessions with now - lastUpdated <= maxAge are still there,
\* unchanged, and no other session is.
C17_RemovesExactlyTheIdle ==
  [][\A max_age_seconds \in 0..MaxAge :
       CleanupCalled(max_age_seconds) => RemovesExactlyTheIdle(max_age_seconds)]_vars

\* cleanup_old_sessions in a process whose zone never changes its UTC offset
C17_ExactInFixedOffsetZone ==
  [][\A max_age_seconds \in 0..MaxAge :
       (~tz.dst /\ CleanupCalled(max_age_seconds))
         => RemovesExactlyTheIdle(max_age_seconds)]_vars

\* a sweep of a fixed-offset process that removed one session and kept one
C17_FixedOffsetWitness ==
  /\ ~tz.dst
  /\ call.op = "cleanup_old_sessions"
  /\ call.result.to_delete # {}
  /\ DOMAIN sessions # {}

\* a del of lines 39-41 is being executed for the id
Deleting(sid) ==
  /\ sweep.pc = "delete"
  /\ sweep.to_delete # <<>>
  /\ Head(sweep.to_delete) = sid
  /\ sweep' # sweep

\* the step raises no error in the sweep
SweepRaisesNothing == sweep'.pc # "raised"

\* a session the step deletes is, at the moment of the deletion, idle for
\* more than maxAge
RemovesOnlyTheIdle ==
  \A sid \in SessionIds :
    Deleting(sid) => now - MapSession(sid).lastUpdated > sweep.max_age_seconds

\* C18: when cleanup_old_sessions runs interleaved with chat requests, it
\* raises no error, and every session it deletes has, at the moment of the
\* deletion, a lastUpdated that is more than maxAge before the current time.
C18_SweepToleratesRequests ==
  [][SweepRaisesNothing /\ RemovesOnlyTheIdle]_vars

\* the deletions alone: no step deletes a session that is not idle
C18_RemovesOnlyTheIdle == [][RemovesOnlyTheIdle]_vars

(***************************************************************************)
(* Properties of the two backends                                          *)
(***************************************************************************)
\* two sessions are equal but for the order of the lists of intel, which
\* list(set(...)) leaves open
SameSession(a, b) ==
  /\ a.sessionId = b.sessionId
  /\ a.messages = b.messages
  /\ a.scamDetected = b.scamDetected
  /\ a.scamScore = b.scamScore
  /\ a.callbackSent = b.callbackSent
  /\ a.createdAt = b.createdAt
  /\ a.lastUpdated = b.lastUpdated
  /\ \A key \in IntelKeys :
       /\ Range(a.intel[key]) = Range(b.intel[key])
       /\ Len(a.intel[key]) = Len(b.intel[key])

\* the two servers gave the same response to the last request
SameResponse ==
  /\ response.status = twin.response.status
  /\ response.endpoint = twin.response.endpoint
  /\ response.reply = twin.response.reply
  /\ response.scamDetected = twin.response.scamDetected
  /\ response.scamScore = twin.response.scamScore
  /\ response.messageCount = twin.response.messageCount
  /\ (response.session = None) <=> (twin.response.session = None)
  /\ response.session # None
       => SameSession(response.session[1], twin.response.session[1])

\* the two servers invoked the Reporter the same number of times with the
\* same payloads
SameCallbacks ==
  /\ Len(callbacks) = Len(twin.callbacks)
  /\ \A i \in DOMAIN callbacks :
       /\ callbacks[i].payload.sessionId = twin.callbacks[i].sessionId
       /\ callbacks[i].payload.totalMessagesExchanged =
            twin.callbacks[i].totalMessagesExchanged
       /\ callbacks[i].payload.finalScamScore = twin.callbacks[i].finalScamScore
       /\ \A key \in IntelKeys :
            Range(callbacks[i].payload.extractedIntelligence[key]) =
              Range(twin.callbacks[i].extractedIntelligence[key])

\* C19: sent the same sequential requests, with no store failure and no
\* expiry, the server with the Redis backend and the server with the
\* in-process map alone give the same responses (status, scamDetected,
\* scamScore, messageCount, inspected session) and invoke the Reporter with
\* the same payloads.
C19_BackendIndifferent == SameResponse /\ SameCallbacks

\* the two servers agree as long as no request has ended in HTTP 500
C19_IndifferentUntilA500 == ~twin.raised => (SameResponse /\ SameCallbacks)

C19_Until500Witness ==
  /\ ~twin.raised
  /\ Len(callbacks) = 1
  /\ response.endpoint = "session"
  /\ response.session # None
  /\ Len(response.session[1].messages) = MaxMessages

(***************************************************************************)
(* Properties of the Redis store                                           *)
(***************************************************************************)
\* the step is a save_session(id, data) that returned True
Saved(sid) ==
  /\ call'.op = "save_session"
  /\ call'.args.session_id = sid
  /\ call'.result.result

\* C20: with the Redis server reachable, after save_session(id, S) returned
\* True, whatever the server held for id before, get_session(id) returns a
\* dict equal to S in every key, and it keeps returning it until the next
\* successful save_session for id: no get_session, no failed save and no
\* save for another id changes it.
C20_SaveThenGetRoundTrip ==
  [][\A sid \in SessionIds :
       IF Saved(sid)
       THEN get_session(sid, "ok")' = Some(call'.args.data)
       ELSE get_session(sid, "ok")' = get_session(sid, "ok")]_vars

\* a save_session that replaced what the server held for the id, after
\* which get_session returns the dict saved
C20_Witness ==
  /\ call.op = "save_session"
  /\ call.result.result
  /\ call.result.held
  /\ call.args.data \in FirstSessions
  /\ get_session(call.args.session_id, "ok") = Some(call.args.data)
  /\ \E sid \in SessionIds : get_session(sid, "ok") = Some(test_session)

(***************************************************************************)
(* Properties of the session inspection                                    *)
(***************************************************************************)
\* the step is an authorized GET /session/{sid} whose store call is answered
Inspected(sid) ==
  /\ call'.op = "session"
  /\ call'.args.x_api_key = API_KEY
  /\ call'.args.load_fault = "ok"
  /\ call'.args.session_id = sid

\* the session a response of the inspection carries is the one the latest
\* successful chat request of the id stored and reported
AsLastStored(session, chat_response) ==
  /\ Len(session.messages) = chat_response.messageCount
  /\ session.scamScore = chat_response.scamScore
  /\ session.scamDetected = chat_response.scamDetected

\* the inspection alone: it changes no store and invokes no Reporter
C21_InspectionChangesNothing ==
  [][\A sid \in SessionIds : Inspected(sid) => NoSideEffect]_vars

\* C21: an authorized GET of a session id changes nothing in either store
\* and invokes no Reporter; for an id in neither store it returns 404, and
\* otherwise the session as the latest successful chat request of the id
\* stored it.
C21_InspectionReadOnly ==
  [][\A sid \in SessionIds :
       Inspected(sid)
         => /\ NoSideEffect
            /\ IF sid \notin DOMAIN sessions \cup DOMAIN redis
               THEN response'.status = 404 /\ response'.session = None
               ELSE /\ response'.status = 200
                    /\ response'.session # None
                    /\ responses[sid] # None
                    /\ AsLastStored(response'.session[1], responses[sid][1])]_vars

(***************************************************************************)
(* Properties of concurrent requests for one id                            *)
(***************************************************************************)
\* thread t executes lines 166-175 for the id, on a server with Redis
Saving(t, sid) ==
  /\ redis_client = "client"
  /\ pc[t] = "save"
  /\ pc'[t] = "idle"
  /\ frame[t].session_id = sid

\* thread t is about to save a session of as many messages as the session
\* another request of the id has saved and reported since t loaded its copy
Overtaken(t, sid) ==
  /\ redis_client = "client"
  /\ pc[t] = "save"
  /\ frame[t].session_id = sid
  /\ responses[sid] # None
  /\ responses[sid][1].messageCount = frame[t].message_count
  /\ sid \in DOMAIN redis
  /\ Len(RedisSession(sid).messages) = frame[t].message_count

\* C22: chat() takes no lock, and its write of lines 166-167 replaces the
\* stored session by the copy the request loaded and changed, whatever was
\* saved for the id in between, and returns success with that copy's
\* message count.  A request overtaken by another request of the id
\* therefore returns the message count and leaves the stored messages and
\* score that the other request reported: the stored session grew by one
\* request's contribution although both returned success.
C22_LastWriteWins ==
  [][\A t \in Threads, sid \in SessionIds :
       Saving(t, sid)
         => /\ RedisSession(sid)' = heap[frame[t].session]
            /\ response'.status = 200
            /\ response'.messageCount = frame[t].message_count
            /\ Overtaken(t, sid)
                 => /\ response'.messageCount = responses[sid][1].messageCount
                    /\ Len(RedisSession(sid)'.messages) =
                         Len(RedisSession(sid).messages)
                    /\ RedisSession(sid)'.scamScore = RedisSession(sid).scamScore]_vars

\* two requests of one id: one has saved and returned messageCount 2, the
\* other is at line 166 with its own copy of 2 messages
C22_Witness ==
  \E t \in Threads, sid \in SessionIds :
    /\ Overtaken(t, sid)
    /\ frame[t].message_count = 2
    /\ response.status = 200
    /\ response.messageCount = 2

\* every successful request of an id reports more messages than the
\* success before it: no update is lost
C22_NoLostUpdate ==
  [][\A t \in Threads, sid \in SessionIds :
       (Saving(t, sid) /\ responses[sid] # None)
         => response'.messageCount > responses[sid][1].messageCount]_vars

(***************************************************************************)
(* Properties of the message sequence                                      *)
(***************************************************************************)
\* the step is a chat request of the id answered with HTTP 200
Succeeded(sid) ==
  /\ response'.status = 200
  /\ response'.endpoint = "chat"
  /\ response'.sessionId = sid
  /\ responses' # responses \/ sessions' # sessions \/ heap' # heap

\* the messages a sequence of messages is extended to by one message
IsAppend(before, after) ==
  /\ Len(after) = Len(before) + 1
  /\ SubSeq(after, 1, Len(before)) = before

\* the stored sequence after a successful request is the sequence loaded
\* plus one message, and messageCount is its length
AppendsItsMessage(sid) ==
  LET loaded == Resolve(sid, "ok").value.messages
  IN  /\ IsAppend(loaded, MapSession(sid)'.messages)
      /\ redis_client = "client" => IsAppend(loaded, RedisSession(sid)'.messages)
      /\ response'.messageCount = Len(MapSession(sid)'.messages)

\* messageCount is one more than in the success response before
CountsInOrder(sid) ==
  response'.messageCount =
    (IF responses[sid] = None THEN 0 ELSE responses[sid][1].messageCount) + 1

\* the append alone
C23_AppendsItsMessage ==
  [][\A sid \in SessionIds : Succeeded(sid) => AppendsItsMessage(sid)]_vars

\* C23: a successful chat request stores the sequence of messages it loaded
\* plus its own message at the end, and its messageCount is the length of
\* the stored sequence; the successive responses of sequential requests for
\* one id therefore report messageCount 1, 2, 3, ... in order.
C23_AppendOnlyInOrder ==
  [][\A sid \in SessionIds :
       Succeeded(sid) => (AppendsItsMessage(sid) /\ CountsInOrder(sid))]_vars

(***************************************************************************)
(* Properties of sequential runs with failing saves                        *)
(***************************************************************************)
\* the step is a chat request of the id answered with HTTP 200, after an
\* earlier one
SucceededAgain(sid) ==
  /\ call'.op = "chat"
  /\ call'.args.session_id = sid
  /\ response'.status = 200
  /\ responses[sid] # None
  /\ sid \in DOMAIN sessions

\* the request loads the session the latest completed request produced,
\* which line 167 put into memory.sessions whatever save_session returned
LoadsTheLatest(sid) == Resolve(sid, "ok").value = MapSession(sid)

\* messageCount and scamScore are not lower than in the response before
NeverGoesDown(sid) ==
  /\ response'.messageCount >= responses[sid][1].messageCount
  /\ response'.scamScore >= responses[sid][1].scamScore

\* the responses alone: they never go down
C24_NeverGoesDown ==
  [][\A sid \in SessionIds : SucceededAgain(sid) => NeverGoesDown(sid)]_vars

\* C24: with the Redis backend and sequential requests, a chat request
\* loads the session the most recent completed chat request of the id
\* produced, also when that request's save_session failed, and the
\* messageCount and scamScore of consecutive responses never go down.
C24_LoadsTheLatestSession ==
  [][\A sid \in SessionIds :
       SucceededAgain(sid) => (LoadsTheLatest(sid) /\ NeverGoesDown(sid))]_vars

(***************************************************************************)
(* Properties of the expiry                                                *)
(***************************************************************************)
\* the step is a successful chat request for an id whose session received
\* no request for longer than the TTL
AnsweredAfterExpiry(sid) ==
  /\ call'.op = "chat"
  /\ call'.args.session_id = sid
  /\ response'.status = 200
  /\ sid \in DOMAIN sessions
  /\ now - MapSession(sid).lastUpdated > SESSION_TTL

\* the Redis key of a session idle for longer than the TTL is gone
C25_KeyExpires ==
  \A sid \in DOMAIN sessions :
    now - MapSession(sid).lastUpdated > SESSION_TTL => get_session(sid, "ok") = None

\* C25: with the Redis backend, the chat request that follows more than
\* SESSION_TTL seconds without a request for its id starts from a fresh
\* session: messageCount 1, scamScore the score of its message,
\* callbackSent false.
C25_FreshAfterExpiry ==
  [][\A sid \in SessionIds :
       AnsweredAfterExpiry(sid)
         => /\ response'.messageCount = 1
            /\ Len(RedisSession(sid)'.messages) = 1
            /\ response'.scamScore = MessageScore(RedisSession(sid)'.messages[1])
            /\ ~RedisSession(sid)'.callbackSent]_vars

(***************************************************************************)
(* Properties of concurrent requests for different ids                     *)
(***************************************************************************)
\* what the stores, the responses and the Reporter's log hold for an id
ViewOf(sid) ==
  [map       |-> IF sid \in DOMAIN sessions THEN Some(MapSession(sid)) ELSE None,
   redis     |-> IF sid \in DOMAIN redis THEN Some(redis[sid]) ELSE None,
   responses |-> responses[sid],
   callbacks |-> SelectSeq(callbacks, LAMBDA c : c.payload.sessionId = sid)]

\* thread t takes the step
Stepping(t) == pc'[t] # pc[t]

\* thread t returns a success response
Returning(t) == pc[t] = "save" /\ pc'[t] = "idle"

\* the response is the one of a run of the id's own requests: it reports
\* the session stored for the id, which holds what was stored before and
\* ends with the request's message, and it counts on from the id's last
\* response
ContinuesItsOwn(t, sid) ==
  LET stored == MapSession(sid)'
      before == IF sid \in DOMAIN sessions THEN MapSession(sid).messages ELSE <<>>
  IN
  /\ response'.status = 200
  /\ response'.sessionId = sid
  /\ response'.messageCount = Len(stored.messages)
  /\ response'.scamScore = stored.scamScore
  /\ stored.scamScore = SumSeq(MessageScores(stored.messages))
  /\ stored.messages[Len(stored.messages)] = frame[t].message
  /\ Len(before) <= Len(stored.messages)
  /\ SubSeq(stored.messages, 1, Len(before)) = before
  /\ responses[sid] # None
       => response'.messageCount > responses[sid][1].messageCount
  /\ redis_client # "none" => RedisSession(sid)' = stored

\* the Reporter is invoked for an id as in a run of the id's own requests:
\* once, for a session that is due
ReportedAsAlone(sid) ==
  /\ Cardinality(CallbacksFor(sid)) <= 1
  /\ \A i \in CallbacksFor(sid) :
       /\ callbacks[i].payload.scamDetected
       /\ callbacks[i].payload.totalMessagesExchanged >= MIN_MESSAGES_FOR_CALLBACK
  /\ (responses[sid] # None
        /\ responses[sid][1].messageCount >= MIN_MESSAGES_FOR_CALLBACK)
       => CallbacksFor(sid) # {}

\* C26: requests for different ids do not interfere, whatever the
\* interleaving of their steps: a step of the request for one id changes
\* nothing of what the stores, the responses and the Reporter's log hold
\* for another id, and every id sees the responses and the Reporter
\* invocation of a sequential run of its own requests.
C26_DistinctIdsDoNotInterfere ==
  /\ [](\A sid \in SessionIds : ReportedAsAlone(sid))
  /\ [][\A t \in Threads :
          Stepping(t)
            => /\ \A sid \in SessionIds \ {IdOf(t)} : ViewOf(sid)' = ViewOf(sid)
               /\ Returning(t) => ContinuesItsOwn(t, IdOf(t))]_vars

\* both ids have a session that was reported, and their requests overlapped
C26_Witness ==
  /\ \A sid \in SessionIds :
       /\ CallbacksFor(sid) # {}
       /\ responses[sid] # None
       /\ responses[sid][1].messageCount >= MIN_MESSAGES_FOR_CALLBACK
  /\ \E t \in Threads : pc[t] \notin {"idle", "mutate"}

(***************************************************************************)
(* Properties of the report passed to the Reporter                         *)
(***************************************************************************)
\* the report appended to the Reporter's log by the step
NewReport == callbacks'[Len(callbacks')].payload

\* the step's report is the one of the session of sid as the request leaves
\* it: the loaded session with the request's message appended, its score
\* added and its extraction merged
ReportsTheSession(sid) ==
  LET before == Resolve(sid, "ok").value
      after == MapSession(sid)'
      message == after.messages[Len(after.messages)]
  IN
  /\ Succeeded(sid)
  /\ Len(callbacks') = Len(callbacks) + 1
  /\ NewReport.sessionId = sid
  /\ NewReport.scamDetected = TRUE
  /\ after.messages = Append(before.messages, message)
  /\ NewReport.totalMessagesExchanged = Len(before.messages) + 1
  /\ NewReport.totalMessagesExchanged = response'.messageCount
  /\ NewReport.finalScamScore = before.scamScore + MessageScore(message)
  /\ NewReport.finalScamScore = after.scamScore
  /\ NewReport.extractedIntelligence
       \in UNION {MergeIntel(before.intel, intel) :
                    intel \in extract_of[stripped[message.text]]}
  /\ NewReport.extractedIntelligence = after.intel

\* C27: the report passed to the Reporter reflects the session including
\* the message that triggered it: the count after the append, the score
\* after the addition, the intel after the merge, the id of the request and
\* scamDetected true.
C27_ReportReflectsSession ==
  [][callbacks' # callbacks => \E sid \in SessionIds : ReportsTheSession(sid)]_vars

\* a request has just reported a session whose last message added to the
\* score and to the intel
C27_Witness ==
  /\ ChatSucceeded
  /\ callbacks # <<>>
  /\ LET report == callbacks[Len(callbacks)].payload
         session == MapSession(report.sessionId)
     IN  /\ response.sessionId = report.sessionId
         /\ report.totalMessagesExchanged = response.messageCount
         /\ report.totalMessagesExchanged = Len(session.messages)
         /\ MessageScore(session.messages[Len(session.messages)]) > 0
         /\ report.finalScamScore = session.scamScore
         /\ report.extractedIntelligence = session.intel
         /\ \E k \in DOMAIN session.intel : session.intel[k] # <<>>

(***************************************************************************)
(* Properties of the flag callbackSent                                     *)
(***************************************************************************)
\* a stored session whose flag is set is a detected scam of at least
\* MIN_MESSAGES_FOR_CALLBACK messages, and the Reporter was invoked for it
FlagOnlyWhenDue(sid) ==
  \A session \in StoredSessions(sid) :
    session.callbackSent
      => /\ session.scamDetected
         /\ Len(session.messages) >= MIN_MESSAGES_FOR_CALLBACK
         /\ CallbacksFor(sid) # {}

\* a stored session of fewer messages, or not detected, has the flag unset
NoFlagBeforeDue(sid) ==
  \A session \in StoredSessions(sid) :
    (Len(session.messages) < MIN_MESSAGES_FOR_CALLBACK \/ ~session.scamDetected)
      => ~session.callbackSent

\* C28: in every stored session reached by sequential chat requests,
\* callbackSent true implies scamDetected true and at least 8 messages; a
\* session of fewer than 8 messages or with scamDetected false never has
\* callbackSent true.
C28_CallbackSentOnlyWhenDue ==
  \A sid \in SessionIds : FlagOnlyWhenDue(sid) /\ NoFlagBeforeDue(sid)

\* every store that is in use holds a session with the flag set, and a
\* request has been answered since
C28_Witness ==
  \E sid \in SessionIds :
    /\ sid \in DOMAIN sessions
    /\ redis_client # "none" => sid \in DOMAIN redis
    /\ \A session \in StoredSessions(sid) : session.callbackSent
    /\ ChatSucceeded
    /\ response.messageCount > MIN_MESSAGES_FOR_CALLBACK

=============================================================================
